---- MODULE Spec2Model ----
(***************************************************************************)
(* Admission helpdesk: the document verification call                      *)
(* (utils/validators.py validate_documents), its wrapper                   *)
(* (agents/document_checker.py DocumentChecker.verify_documents) and the   *)
(* application intake that it gates (utils/api_interface.py                *)
(* AdmissionAPI.submit_application).                                       *)
(*                                                                         *)
(* Text is modelled as sequences of one-character strings so that the      *)
(* conversions of the code (.lower(), .endswith(), .replace()) are         *)
(* computed, not assumed.  The external capabilities (poppler, tesseract,  *)
(* Gemini, pandas, chromadb) are nondeterministic: each call draws one of  *)
(* the outcomes the capability can produce.                                *)
(***************************************************************************)
EXTENDS Integers, Sequences, FiniteSets, TLC

\* Bounds of the model.
MaxDocs == 2
MaxPages == 2

VARIABLES
    pc,               \* position of the submit_application call
    remaining,        \* documents the for loop of validate_documents has not fetched yet
    doc,              \* loop variable doc (its file name), NoDoc before the first fetch
    pages_left,       \* raster pages of doc not yet given to tesseract
    extracted_data,   \* validators.py extracted_data: field -> list of observed values
    student_df,       \* validators.py student_df: the rows read from data/student.csv
    verdict,          \* return value of validate_documents, NoVerdict before
    doc_verification, \* return value of DocumentChecker.verify_documents
    result,           \* return value of AdmissionAPI.submit_application
    db_applications,  \* chroma collection "applications": id -> record
    db_documents,     \* number of records in chroma collection "documents"
    officer_applications, \* AdmissionOfficer.applications: id -> status
    exceptions,       \* history: exceptions raised during the running call
    ocr_calls,        \* history: pytesseract.image_to_string invocations of the call
    ocr_returned,     \* history: invocations of it that returned a page text
    gemini_calls,     \* history: model.generate_content invocations of the call
    processed,        \* history: what became of each document the loop fetched
    environ_path,     \* os.environ["PATH"]: how many times the poppler directory was appended
    tesseract_cmd,    \* pytesseract.pytesseract.tesseract_cmd (module attribute)
    calls,            \* verify_documents calls of concurrent sessions: caller -> its locals
    text,             \* _extract_fields: the argument text
    doc_type,         \* _extract_fields: the argument doc_type
    fields,           \* _extract_fields: the dictionary returned, NoFields before
    application_data, \* submit_application: the argument application_data, once it is read
    office,           \* the admission officer's session: its last AdmissionAPI call and what the call did
    db_loans,         \* chroma collection "loans": id -> record
    loan_calls        \* process_loan_request calls of the student sessions: caller -> its locals

vars == <<pc, remaining, doc, pages_left, extracted_data, student_df,
          verdict, doc_verification, result, db_applications, db_documents,
          officer_applications, exceptions, ocr_calls, ocr_returned, gemini_calls,
          processed, environ_path, tesseract_cmd, calls, text, doc_type, fields,
          application_data, office, db_loans, loan_calls>>

-----------------------------------------------------------------------------
\* Text helpers: str.lower(), str.endswith(), str.replace(' ', '_').

UpperCase == <<"A","B","C","D","E","F","G","H","I","J","K","L","M",
               "N","O","P","Q","R","S","T","U","V","W","X","Y","Z">>
LowerCase == <<"a","b","c","d","e","f","g","h","i","j","k","l","m",
               "n","o","p","q","r","s","t","u","v","w","x","y","z">>
Digits == {"0","1","2","3","4","5","6","7","8","9"}

LowerChar(c) ==
    IF \E i \in 1..Len(UpperCase) : UpperCase[i] = c
    THEN LowerCase[CHOOSE i \in 1..Len(UpperCase) : UpperCase[i] = c]
    ELSE c

lower(s) == [i \in 1..Len(s) |-> LowerChar(s[i])]

endswith(s, suffix) ==
    /\ Len(s) >= Len(suffix)
    /\ SubSeq(s, Len(s) - Len(suffix) + 1, Len(s)) = suffix

replace_space(s) == [i \in 1..Len(s) |-> IF s[i] = " " THEN "_" ELSE s[i]]

IsLetter(c) == \E i \in 1..Len(UpperCase) : c = UpperCase[i] \/ c = LowerCase[i]

-----------------------------------------------------------------------------
\* Uploaded documents: only the file name decides how a document is handled.

FileNames ==
    { <<"M",".","P","d","f">>, <<"i",".","p","n","g">>, <<"i",".","J","P","E","G">>,
      <<"c",".","d","o","c","x">>, <<"p","d","f">> }

NoDoc == << >>

is_pdf(name) == endswith(lower(name), <<".","p","d","f">>)

is_image(name) ==
    \/ endswith(lower(name), <<".","p","n","g">>)
    \/ endswith(lower(name), <<".","j","p","g">>)
    \/ endswith(lower(name), <<".","j","p","e","g">>)

-----------------------------------------------------------------------------
\* Values of the JSON object Gemini answers with.  t is the JSON type, s the
\* characters of a string, n the number (t = "num") or the length (t = "list").

JNull == [t |-> "null", s |-> << >>, n |-> 0]
JStr(chars) == [t |-> "str", s |-> chars, n |-> 0]
JNum(k) == [t |-> "num", s |-> << >>, n |-> k]
JList(k) == [t |-> "list", s |-> << >>, n |-> k]

NullString == JStr(<<"n","u","l","l">>)

\* Python truth value of a parsed JSON value (the filter "if v", line 220).
truthy(v) ==
    CASE v.t = "null" -> FALSE
      [] v.t = "str"  -> Len(v.s) > 0
      [] v.t = "num"  -> v.n # 0
      [] v.t = "list" -> v.n > 0

\* set(...) needs hashable members: a JSON array is a Python list.
hashable(v) == v.t # "list"

Fields == <<"name", "dob", "passing_year", "board", "gender">>
FieldSet == {Fields[i] : i \in 1..Len(Fields)}

required_fields == {"name", "dob", "passing_year", "board", "gender"}

AshaRao == <<"A","s","h","a"," ","R","a","o">>
Dob_YMD == <<"2","0","0","4","-","0","5","-","1","2">>
Dob_DMY == <<"1","2","-","0","5","-","2","0","0","4">>

\* What Gemini may put under each key besides null.
FieldValues(f) ==
    CASE f = "name" -> { JStr(AshaRao), JStr(lower(AshaRao)), JStr(<< >>),
                         NullString, JList(1) }
      [] f = "dob" -> { JStr(Dob_YMD), JStr(Dob_DMY) }
      [] f = "passing_year" -> { JStr(<<"2","0","2","2">>), JNum(0) }
      [] f = "board" -> { JStr(<<"C","B","S","E">>) }
      [] f = "gender" -> { JStr(<<"F","e","m","a","l","e">>) }

CompleteObject ==
    [name |-> JStr(AshaRao), dob |-> JStr(Dob_YMD),
     passing_year |-> JStr(<<"2","0","2","2">>), board |-> JStr(<<"C","B","S","E">>),
     gender |-> JStr(<<"F","e","m","a","l","e">>)]
EmptyObject == [f \in FieldSet |-> JNull]

\* The parsed objects the model draws from: the empty object, the object with
\* the name alone, the complete object, the complete object without the
\* board, the one without the gender and the complete object with one value
\* changed.
GeminiObjects ==
    {CompleteObject, EmptyObject, [EmptyObject EXCEPT !["name"] = JStr(AshaRao)],
     [CompleteObject EXCEPT !["board"] = JNull],
     [CompleteObject EXCEPT !["gender"] = JNull]}
    \cup UNION {{[CompleteObject EXCEPT ![f] = v] : v \in FieldValues(f)} : f \in FieldSet}

\* Outcomes of one structured-extraction request (lines 187-214).
NoObject == EmptyObject
GeminiOutcomes ==
    { \* except Exception: generate_content or response.text raises, or the
      \* parsed JSON is no object and extracted.get raises
      [kind |-> "error", obj |-> NoObject],
      \* except json.JSONDecodeError: json.loads raises
      [kind |-> "unparseable", obj |-> NoObject] }
    \cup {[kind |-> "object", obj |-> o] : o \in GeminiObjects}

-----------------------------------------------------------------------------
\* Messages and verdicts.

Msg(prefix, missing, detail) == [prefix |-> prefix, missing |-> missing, text |-> detail]
NoMsg == Msg("", {}, << >>)
NoData == << >>

NoVerdict ==
    [keys |-> {}, valid |-> FALSE, verification_status |-> "none",
     reason |-> NoMsg, extracted_data |-> NoData, error |-> << >>]

\* Mutant of error_verdict: the boundary reports a business failure.
error_verdict_as_failed(e) ==
    [keys |-> {"valid", "verification_status", "reason", "error"},
     valid |-> FALSE, verification_status |-> "failed",
     reason |-> Msg("Document processing failed", {}, e),
     extracted_data |-> NoData, error |-> e]

\* validators.py lines 247-254: the orchestrator boundary.
error_verdict(e) ==
    [keys |-> {"valid", "verification_status", "reason", "error"},
     valid |-> FALSE, verification_status |-> "error",
     reason |-> Msg("Document processing failed", {}, e),
     extracted_data |-> NoData, error |-> e]

\* Mutant of collect: a later document's value replaces the earlier ones.
collect_latest(extracted, obj) ==
    [f \in FieldSet |->
        IF obj[f] # JNull /\ obj[f] # NullString
        THEN <<obj[f]>>
        ELSE extracted[f]]

\* validators.py lines 202-204: the values of one parsed object are appended.
collect(extracted, obj) ==
    [f \in FieldSet |->
        IF obj[f] # JNull /\ obj[f] # NullString
        THEN Append(extracted[f], obj[f])
        ELSE extracted[f]]

\* validators.py lines 216-222: the non-empty values per field as a set; a
\* field without one is no key of cleaned_data.
kept_values(values) == {values[i] : i \in {j \in 1..Len(values) : truthy(values[j])}}

\* list(S): the members of a set in the order the hash table iterates them,
\* which the program does not control: any order, every member once.
list_of(S) ==
    {l \in [1..Cardinality(S) -> S] : \A v \in S : \E i \in 1..Cardinality(S) : l[i] = v}

\* Mutant of unique_values: the list comprehension without set().
unique_values_with_repeats(values) == {SelectSeq(values, truthy)}

\* validators.py line 220: unique_values = list(set(v for v in values if v)).
unique_values(values) == list_of(kept_values(values))

clean_unhashable(extracted) ==
    \E f \in FieldSet : \E v \in kept_values(extracted[f]) : ~hashable(v)

\* Mutant of clean: the filter "if v" is left out, empty values are kept.
clean_keeps_empty(extracted) ==
    [f \in {g \in FieldSet : Len(extracted[g]) > 0}
        |-> {extracted[f][i] : i \in 1..Len(extracted[f])}]

clean(extracted) ==
    [f \in {g \in FieldSet : kept_values(extracted[g]) # {}} |-> kept_values(extracted[f])]

put(f, k, v) == [x \in (DOMAIN f) \cup {k} |-> IF x = k THEN v ELSE f[x]]

\* validators.py lines 217-222: the dictionaries cleaned_data can be, one list
\* of unique values under each field that clean keeps (i counts the fields of
\* extracted_data the loop has gone through).
RECURSIVE cleaned_data(_, _)
cleaned_data(extracted, i) ==
    IF i = 0 THEN { << >> }
    ELSE IF Fields[i] \in DOMAIN clean(extracted)
         THEN {put(c, Fields[i], l) : c \in cleaned_data(extracted, i - 1),
                                     l \in unique_values(extracted[Fields[i]])}
         ELSE cleaned_data(extracted, i - 1)

\* validators.py lines 226-245: the completeness check and the two verdicts.
\* Mutant of missing_fields: gender is not looked for.
missing_fields_without_gender(cleaned) ==
    {"name", "dob", "passing_year", "board"} \ DOMAIN cleaned

missing_fields(cleaned) == required_fields \ DOMAIN cleaned

\* Mutant of completeness_verdict: the reason lists every required field.
completeness_verdict_lists_all(cleaned) ==
    IF missing_fields(cleaned) # {}
    THEN [keys |-> {"valid", "verification_status", "reason", "extracted_data"},
          valid |-> FALSE, verification_status |-> "failed",
          reason |-> Msg("Missing required fields", required_fields, << >>),
          extracted_data |-> cleaned, error |-> << >>]
    ELSE [keys |-> {"valid", "verification_status", "extracted_data"},
          valid |-> TRUE, verification_status |-> "success",
          reason |-> NoMsg, extracted_data |-> cleaned, error |-> << >>]

\* The reason of the failed verdict is "Missing required fields: " followed by
\* ', '.join(missing_fields): the field names of the set, each once, in the
\* order the set iterates; Msg keeps the set of the names joined.
completeness_verdict(cleaned) ==
    IF missing_fields(cleaned) # {}
    THEN [keys |-> {"valid", "verification_status", "reason", "extracted_data"},
          valid |-> FALSE, verification_status |-> "failed",
          reason |-> Msg("Missing required fields", missing_fields(cleaned), << >>),
          extracted_data |-> cleaned, error |-> << >>]
    ELSE [keys |-> {"valid", "verification_status", "extracted_data"},
          valid |-> TRUE, verification_status |-> "success",
          reason |-> NoMsg, extracted_data |-> cleaned, error |-> << >>]

\* How the callers read the match out of a verdict: api_interface.py lines
\* 42-43 doc_verification.get('matched_student', {}) and .get('match_score', 0),
\* document_checker.py line 41 verification_result.get("match_score", 0).
\* No verdict of validate_documents has either key.
matched_student(v) == IF "matched_student" \in v.keys THEN v.matched_student ELSE << >>
match_score(v) == IF "match_score" \in v.keys THEN v.match_score ELSE 0

-----------------------------------------------------------------------------
\* The state after construction: no call running, empty collections.

NoResult ==
    [success |-> FALSE, returned |-> FALSE, error |-> NoMsg, error_type |-> "",
     application_id |-> << >>]

EmptyLists == [f \in FieldSet |-> << >>]

\* The collections are persistent (chromadb.PersistentClient): a process
\* starts with what earlier runs stored, here nothing or one application.
StoredApplication ==
    [status |-> "pending", name |-> AshaRao, program |-> <<"P","h","D">>,
     email |-> <<"a","@","b",".","c","o">>]

\* submit_application has not read its argument application_data.
NoApplication == [name |-> << >>, email |-> << >>, program |-> << >>]

\* The officer's session has made no call.
NoOffice ==
    [op |-> "", application_id |-> << >>, new_status |-> "", n |-> 0,
     officer |-> [success |-> FALSE, error |-> ""],
     result |-> [success |-> FALSE, error |-> "", documents |-> {}, student_id |-> << >>],
     sent |-> {}, generated |-> {}]

\* _extract_fields has not returned.
NoFields ==
    [returned |-> FALSE, keys |-> {}, name |-> JNull, dob |-> JNull,
     passing_year |-> JNull, board |-> JNull, total_marks |-> JNull, aadhar |-> JNull]

InitProcess ==
    /\ pc = "Idle"
    /\ remaining = 0
    /\ doc = NoDoc
    /\ pages_left = 0
    /\ extracted_data = EmptyLists
    /\ student_df = << >>
    /\ verdict = NoVerdict
    /\ doc_verification = NoVerdict
    /\ result = NoResult
    /\ db_applications \in
          { << >>, [id \in {<<"a","s","h","a","_","r","a","o","_","p","h","d">>}
                       |-> StoredApplication] }
    /\ db_documents = 0
    /\ officer_applications = << >>
    /\ exceptions = {}
    /\ ocr_calls = 0
    /\ ocr_returned = 0
    /\ gemini_calls = 0
    /\ processed = << >>
    /\ tesseract_cmd = "tesseract"
    /\ application_data = NoApplication
    /\ office = NoOffice
    /\ db_loans = << >>

\* One session: its AdmissionAPI() has run DocumentChecker.__init__
\* (document_checker.py line 16), which appended the poppler directory once.
Init ==
    /\ InitProcess
    /\ environ_path = 1
    /\ loan_calls = << >>
    /\ calls = << >>
    /\ text = << >>
    /\ doc_type = ""
    /\ fields = NoFields

\* Process-wide state outside the collections: PATH, to which every
\* DocumentChecker.__init__ (document_checker.py line 16) appends the poppler
\* directory, and the command of pytesseract, which starts as "tesseract".
ambient == <<environ_path, tesseract_cmd>>

stores == <<db_applications, db_documents, officer_applications>>

\* The officer's session and the loan desk, which the submission leaves alone.
desk == <<office, db_loans, loan_calls>>

\* What one pass of the loop body (lines 120-214) makes of a document: it is
\* skipped, it raises to the boundary with the text error, or its text is
\* read and the structured-extraction request has the outcome g.
Skipped == [fate |-> "skip", error |-> << >>, g |-> [kind |-> "error", obj |-> NoObject]]
Fatal(e) == [fate |-> "fatal", error |-> e, g |-> [kind |-> "error", obj |-> NoObject]]
Read(g) == [fate |-> "read", error |-> << >>, g |-> g]

\* Mutant of RaiseToBoundary: the exception is logged and the loop goes on.
RaiseAndContinue(where, underlying, e) ==
    /\ exceptions' = exceptions \cup {[where |-> where, text |-> underlying]}
    /\ verdict' = verdict
    /\ pc' = "Loop"

\* An exception that reaches the except clause of validate_documents
\* (lines 247-254): the call returns the error verdict.
\* exceptions records where the exception was raised and its own text; e is the
\* exception that arrives at the boundary.
RaiseToBoundary(where, underlying, e) ==
    /\ exceptions' = exceptions \cup {[where |-> where, text |-> underlying]}
    /\ verdict' = error_verdict(e)
    /\ pc' = "Validated"

\* submit_application is called with some documents; it calls
\* verify_documents, which calls validate_documents (api_interface.py line 26,
\* document_checker.py line 25).
BeginCall ==
    /\ pc = "Idle"
    /\ \E n \in 0..MaxDocs : remaining' = n
    /\ pc' = "Start"
    \* document_checker.py line 22: PATH = PATH + os.pathsep + poppler_path
    /\ environ_path' = environ_path + 1
    /\ UNCHANGED <<tesseract_cmd, calls, text, doc_type, fields, desk, application_data>>
    /\ UNCHANGED <<doc, pages_left, extracted_data, student_df, verdict,
                   doc_verification, result, exceptions, ocr_calls, ocr_returned,
                   gemini_calls, processed>>
    /\ UNCHANGED stores

\* The rows of data/student.csv: two students of whom the second has three
\* fields in common with CompleteObject (name, dob, board) and the first has
\* one (gender).
StudentRows ==
    { << [name |-> JStr(<<"R","a","v","i">>), dob |-> JStr(<<"2","0","0","3","-","0","1","-","0","1">>),
          passing_year |-> JStr(<<"2","0","2","1">>), board |-> JStr(<<"I","C","S","E">>),
          gender |-> JStr(<<"F","e","m","a","l","e">>)],
         [name |-> JStr(AshaRao), dob |-> JStr(Dob_YMD),
          passing_year |-> JStr(<<"2","0","2","1">>), board |-> JStr(<<"C","B","S","E">>),
          gender |-> JStr(<<"M","a","l","e">>)] >> }

\* validators.py lines 95-117: tesseract path, registry read, Gemini model.
SetupOutcomes == {"ok", "registry unreadable", "model unavailable"}

Setup ==
    /\ pc = "Start"
    \* validators.py lines 97-98
    /\ tesseract_cmd' = "C:\\Program Files\\Tesseract-OCR\\tesseract.exe"
    /\ UNCHANGED <<environ_path, calls, text, doc_type, fields, desk, application_data>>
    /\ \E o \in SetupOutcomes :
          IF o = "ok"
          THEN /\ pc' = "Loop"
               /\ \E rows \in StudentRows : student_df' = rows
               /\ extracted_data' = EmptyLists
               /\ UNCHANGED <<verdict, exceptions>>
          ELSE /\ RaiseToBoundary("setup", o, <<o>>)
               \* line 101 has assigned student_df when line 106 raises
               /\ IF o = "model unavailable"
                  THEN \E rows \in StudentRows : student_df' = rows
                  ELSE UNCHANGED student_df
               /\ UNCHANGED extracted_data
    /\ UNCHANGED <<remaining, doc, pages_left, doc_verification, result,
                   ocr_calls, ocr_returned, gemini_calls, processed>>
    /\ UNCHANGED stores

\* Mutant of document_kind: whatever is no PDF is opened as an image.
document_kind_no_skip(name) ==
    IF is_pdf(name) THEN "pdf" ELSE "image"

\* validators.py lines 125, 148, 154: the branch taken for a file name.
document_kind(name) ==
    IF is_pdf(name) THEN "pdf"
    ELSE IF is_image(name) THEN "image"
    ELSE "skip"

\* The file names that take each branch.
NamesOfKind(kind) == {name \in FileNames : document_kind(name) = kind}
PdfNames == NamesOfKind("pdf")
ImageNames == NamesOfKind("image")
SkippedNames == NamesOfKind("skip")

\* validators.py lines 120 and 216: the loop is over.
LoopEnd ==
    /\ pc = "Loop"
    /\ remaining = 0
    /\ pc' = "Reconcile"
    /\ UNCHANGED <<remaining, doc, pages_left, extracted_data, student_df, verdict,
                   doc_verification, result, exceptions, ocr_calls, ocr_returned,
                   gemini_calls, processed>>
    /\ UNCHANGED stores
    /\ UNCHANGED <<environ_path, tesseract_cmd, calls, text, doc_type, fields, desk,
                   application_data>>

\* validators.py lines 154-155: neither PDF nor image, continue.
SkipUnsupported ==
    /\ pc = "Loop"
    /\ remaining > 0
    /\ \E name \in SkippedNames : doc' = name
    /\ remaining' = remaining - 1
    /\ processed' = Append(processed, Skipped)
    /\ UNCHANGED <<pc, pages_left, extracted_data, student_df, verdict, doc_verification,
                   result, exceptions, ocr_calls, ocr_returned, gemini_calls>>
    /\ UNCHANGED stores
    /\ UNCHANGED <<environ_path, tesseract_cmd, calls, text, doc_type, fields, desk,
                   application_data>>

\* validators.py lines 125-134 and 144-146: pdf2image.convert_from_bytes
\* returns the pages or raises; the handler re-raises.
RasterOutcomes ==
    {[ok |-> FALSE, pages |-> 0]} \cup {[ok |-> TRUE, pages |-> n] : n \in 0..MaxPages}

pdf_error(e) == <<"PDF processing failed">> \o e

RasterizePdf ==
    /\ pc = "Loop"
    /\ remaining > 0
    /\ \E name \in PdfNames : doc' = name
    /\ remaining' = remaining - 1
    /\ \E o \in RasterOutcomes :
          IF ~o.ok
          THEN /\ RaiseToBoundary("rasterize", "decode failed", pdf_error(<<"decode failed">>))
               /\ processed' = Append(processed, Fatal(pdf_error(<<"decode failed">>)))
               /\ UNCHANGED pages_left
          ELSE /\ pages_left' = o.pages
               /\ pc' = IF o.pages = 0 THEN "Gemini" ELSE "Ocr"
               /\ UNCHANGED <<verdict, exceptions, processed>>
    /\ UNCHANGED <<extracted_data, student_df, doc_verification, result, ocr_calls,
                   ocr_returned, gemini_calls>>
    /\ UNCHANGED stores
    /\ UNCHANGED <<environ_path, tesseract_cmd, calls, text, doc_type, fields, desk,
                   application_data>>

\* validators.py lines 148-149: Image.open(...).convert('L') returns or raises.
OpenOutcomes == {"ok", "cannot identify image file"}

OpenImage ==
    /\ pc = "Loop"
    /\ remaining > 0
    /\ \E name \in ImageNames : doc' = name
    /\ remaining' = remaining - 1
    /\ \E o \in OpenOutcomes :
          IF o = "ok"
          THEN /\ pages_left' = 1
               /\ pc' = "Ocr"
               /\ UNCHANGED <<verdict, exceptions, processed>>
          ELSE /\ RaiseToBoundary("open", o, <<o>>)
               /\ processed' = Append(processed, Fatal(<<o>>))
               /\ UNCHANGED pages_left
    /\ UNCHANGED <<extracted_data, student_df, doc_verification, result, ocr_calls,
                   ocr_returned, gemini_calls>>
    /\ UNCHANGED stores
    /\ UNCHANGED <<environ_path, tesseract_cmd, calls, text, doc_type, fields, desk,
                   application_data>>

\* validators.py lines 136-142 (a PDF page, timeout=30) and 150-153 (an
\* image, no timeout): tesseract returns the page text or raises.
OcrOutcomes(name) ==
    IF document_kind(name) = "pdf"
    THEN {"text", "tesseract timeout", "tesseract not found"}
    ELSE {"text", "tesseract not found"}

ocr_error(name, o) ==
    IF document_kind(name) = "pdf" THEN pdf_error(<<o>>) ELSE <<o>>

\* Mutant of ocr_fatal: a failing OCR of an image is swallowed.
ocr_fatal_pdf_only(name, o) == o # "text" /\ document_kind(name) = "pdf"

\* validators.py lines 138-146 and 150-153: every exception of image_to_string
\* leaves the loop (a PDF page's through the handler that re-raises).
ocr_fatal(name, o) == o # "text"

OcrPage ==
    /\ pc = "Ocr"
    /\ pages_left > 0
    /\ ocr_calls' = ocr_calls + 1
    /\ \E o \in OcrOutcomes(doc) :
          IF ocr_fatal(doc, o)
          THEN /\ RaiseToBoundary("ocr", o, ocr_error(doc, o))
               /\ processed' = Append(processed, Fatal(ocr_error(doc, o)))
               /\ UNCHANGED <<pages_left, ocr_returned>>
          ELSE /\ pages_left' = pages_left - 1
               /\ ocr_returned' = IF o = "text" THEN ocr_returned + 1 ELSE ocr_returned
               /\ pc' = IF pages_left = 1 THEN "Gemini" ELSE "Ocr"
               /\ UNCHANGED <<verdict, exceptions, processed>>
    /\ UNCHANGED <<remaining, doc, extracted_data, student_df, doc_verification,
                   result, gemini_calls>>
    /\ UNCHANGED stores
    /\ UNCHANGED <<environ_path, tesseract_cmd, calls, text, doc_type, fields, desk,
                   application_data>>

\* Mutant of structured_extraction: a failed request drops what was collected.
structured_extraction_resets(extracted, g) ==
    IF g.kind = "object" THEN collect(extracted, g.obj) ELSE EmptyLists

\* validators.py lines 187-214: the request, the parse and the collection of
\* one document; both handlers log and continue.
structured_extraction(extracted, g) ==
    IF g.kind = "object" THEN collect(extracted, g.obj) ELSE extracted

FieldExtract ==
    /\ pc = "Gemini"
    /\ gemini_calls' = gemini_calls + 1
    /\ \E g \in GeminiOutcomes :
          /\ extracted_data' = structured_extraction(extracted_data, g)
          /\ processed' = Append(processed, Read(g))
          /\ exceptions' = IF g.kind = "object" THEN exceptions
                           ELSE exceptions \cup {[where |-> "gemini", text |-> g.kind]}
    /\ pc' = "Loop"
    /\ UNCHANGED <<remaining, doc, pages_left, student_df, verdict, doc_verification,
                   result, ocr_calls, ocr_returned>>
    /\ UNCHANGED stores
    /\ UNCHANGED <<environ_path, tesseract_cmd, calls, text, doc_type, fields, desk,
                   application_data>>

\* validators.py lines 216-245: reconciliation, completeness check, return.
Reconcile ==
    /\ pc = "Reconcile"
    /\ IF clean_unhashable(extracted_data)
       THEN RaiseToBoundary("reconcile", "unhashable type", <<"unhashable type">>)
       ELSE /\ \E cleaned \in cleaned_data(extracted_data, Len(Fields)) :
                  verdict' = completeness_verdict(cleaned)
            /\ pc' = "Validated"
            /\ UNCHANGED exceptions
    /\ UNCHANGED <<remaining, doc, pages_left, extracted_data, student_df,
                   doc_verification, result, ocr_calls, ocr_returned, gemini_calls,
                   processed>>
    /\ UNCHANGED stores
    /\ UNCHANGED <<environ_path, tesseract_cmd, calls, text, doc_type, fields, desk,
                   application_data>>

-----------------------------------------------------------------------------
\* DocumentChecker.verify_documents (document_checker.py lines 18-53) after
\* validate_documents has returned: a valid verdict is stored in the
\* "documents" collection; store_document_verification swallows a failing add,
\* an unreachable collection raises and is turned into an error verdict.

checker_error_verdict(e) ==
    [keys |-> {"valid", "verification_status", "reason", "error"},
     valid |-> FALSE, verification_status |-> "error",
     reason |-> Msg("Document verification failed", {}, e),
     extracted_data |-> NoData, error |-> e]

VerificationStoreOutcomes == {"stored", "add failed", "collection unavailable"}

VerifyDocumentsReturn ==
    /\ pc = "Validated"
    /\ IF verdict.valid
       THEN \E o \in VerificationStoreOutcomes :
               /\ db_documents' = IF o = "stored" THEN db_documents + 1 ELSE db_documents
               /\ doc_verification' = IF o = "collection unavailable"
                                      THEN checker_error_verdict(<<o>>)
                                      ELSE verdict
       ELSE /\ doc_verification' = verdict
            /\ UNCHANGED db_documents
    /\ pc' = "Verified"
    \* validate_documents has returned: its locals are gone, and the history
    \* of the verification call ends with it.
    /\ remaining' = 0
    /\ doc' = NoDoc
    /\ pages_left' = 0
    /\ extracted_data' = EmptyLists
    /\ student_df' = << >>
    /\ verdict' = NoVerdict
    /\ exceptions' = {}
    /\ ocr_calls' = 0
    /\ ocr_returned' = 0
    /\ gemini_calls' = 0
    /\ processed' = << >>
    /\ UNCHANGED <<result, db_applications, officer_applications>>
    /\ UNCHANGED <<environ_path, tesseract_cmd, calls, text, doc_type, fields, desk,
                   application_data>>

-----------------------------------------------------------------------------
\* Application intake: validators.py validate_email and
\* validate_application_data, db_manager.py store_application,
\* admission_officer.py process_application, student_counselor.py
\* send_communication, error_handler.py handle_exceptions.

LocalChar(c) == IsLetter(c) \/ c \in Digits \/ c \in {".", "_", "%", "+", "-"}
DomainChar(c) == IsLetter(c) \/ c \in Digits \/ c \in {".", "-"}

\* re.match(r'^[a-zA-Z0-9._%+-]+@[a-zA-Z0-9.-]+\.[a-zA-Z]{2,}$', email)
\* (no email of the model ends in a newline, the one case where $ is not the end).
validate_email(email) ==
    \E a \in 1..Len(email) : \E d \in 1..Len(email) :
        /\ email[a] = "@"
        /\ a >= 2
        /\ \A i \in 1..(a - 1) : LocalChar(email[i])
        /\ email[d] = "."
        /\ d >= a + 2
        /\ \A i \in (a + 1)..(d - 1) : DomainChar(email[i])
        /\ Len(email) - d >= 2
        /\ \A i \in (d + 1)..Len(email) : IsLetter(email[i])

Programs == { <<"U","n","d","e","r","g","r","a","d","u","a","t","e">>,
              <<"G","r","a","d","u","a","t","e">>, <<"P","h","D">> }

\* What the application form sends (app.py lines 89-91 and 111): a name and an
\* email that are not empty, and one of the three options of the selectbox.
ApplicationData ==
    {[name |-> n, email |-> e, program |-> p] :
        n \in { AshaRao },
        e \in { <<"a","@","b",".","c","o">>, <<"a","@","b",".","c">>, <<"a","b">> },
        p \in Programs}

\* validators.py lines 56-72: the list of errors; a non-empty list is raised.
validate_application_data(data) ==
    (IF Len(data.name) = 0 THEN <<"Name is required">> ELSE << >>)
    \o (IF Len(data.email) = 0 \/ ~validate_email(data.email)
        THEN <<"Valid email is required">> ELSE << >>)
    \o (IF Len(data.program) = 0 \/ data.program \notin Programs
        THEN <<"Valid program selection is required">> ELSE << >>)

\* db_manager.py line 35: f"{name}_{program}".lower().replace(' ', '_')
application_id(data) == replace_space(lower(data.name \o <<"_">> \o data.program))

\* db_manager.py lines 41-49: collection.add.  chroma adds a new id, leaves a
\* record alone whose id exists already (or raises, depending on its version),
\* and may fail for its own reasons.
AddOutcomes(db, id) ==
    IF id \in DOMAIN db THEN {"ignored", "raise"} ELSE {"added", "raise"}

store_application(db, data, o) ==
    IF o = "added"
    THEN put(db, application_id(data),
             [status |-> "pending", name |-> data.name, program |-> data.program,
              email |-> data.email])
    ELSE db

\* student_counselor.py lines 9-14 and 24-37: str.format(**student, **kwargs)
\* raises TypeError for a key given twice and KeyError for a placeholder not
\* given; student['email'] raises KeyError.
Placeholders(template_key) ==
    CASE template_key = "application_received" -> {"name", "program"}
      [] template_key = "shortlisted" -> {"name", "program", "next_steps"}
      [] template_key = "document_missing" -> {"name", "documents"}
      [] template_key = "fee_payment" -> {"name", "amount", "program"}
      [] OTHER -> {}

Templates == {"application_received", "shortlisted", "document_missing", "fee_payment"}

send_communication(student_keys, template_key, kwargs_keys) ==
    IF template_key \notin Templates THEN "invalid template"
    ELSE IF student_keys \cap kwargs_keys # {} THEN "TypeError"
    ELSE IF ~(Placeholders(template_key) \subseteq (student_keys \cup kwargs_keys))
         THEN "KeyError"
    ELSE IF "email" \notin student_keys THEN "KeyError"
    ELSE "sent"

\* Mutant of verification_failed: only an error verdict stops the submission.
verification_failed_on_error_only(v) == v.verification_status = "error"

\* api_interface.py line 29: the gate on the verification verdict.
verification_failed(v) == ~v.valid

\* error_handler.py lines 41-43: any other exception.
unexpected_error ==
    [success |-> FALSE, returned |-> TRUE,
     error |-> Msg("An unexpected error occurred", {}, << >>),
     error_type |-> "unknown", application_id |-> << >>]

\* AdmissionAPI.submit_application (api_interface.py lines 22-53) after
\* verify_documents has returned, with AdmissionOfficer.process_application
\* (admission_officer.py lines 59-89) and the handle_exceptions wrapper.
SubmitApplication ==
    /\ pc = "Verified"
    /\ pc' = "Done"
    /\ IF verification_failed(doc_verification)
       THEN /\ result' = [success |-> FALSE, returned |-> TRUE,
                          error |-> doc_verification.reason, error_type |-> "",
                          application_id |-> << >>]
            /\ UNCHANGED <<db_applications, officer_applications, application_data>>
       ELSE \E data \in ApplicationData :
            /\ application_data' = data
            /\ IF validate_application_data(data) # << >>
               THEN /\ result' = [success |-> FALSE, returned |-> TRUE,
                                  error |-> Msg("validation", {},
                                                validate_application_data(data)),
                                  error_type |-> "", application_id |-> << >>]
                    /\ UNCHANGED <<db_applications, officer_applications>>
               ELSE \E o \in AddOutcomes(db_applications, application_id(data)) :
                       IF o = "raise"
                       THEN /\ result' = [success |-> FALSE, returned |-> TRUE,
                                          error |-> Msg("Failed to store application",
                                                        {}, << >>),
                                          error_type |-> "", application_id |-> << >>]
                            /\ UNCHANGED <<db_applications, officer_applications>>
                       ELSE /\ db_applications' = store_application(db_applications, data, o)
                            /\ officer_applications' =
                                  put(officer_applications, application_id(data), "pending")
                            /\ result' =
                                  IF send_communication({"name", "email", "program"},
                                                        "application_received",
                                                        {"program"}) \in {"TypeError", "KeyError"}
                                  THEN unexpected_error
                                  ELSE [success |-> TRUE, returned |-> TRUE, error |-> NoMsg,
                                        error_type |-> "",
                                        application_id |-> application_id(data)]
    /\ UNCHANGED <<remaining, doc, pages_left, extracted_data, student_df, verdict,
                   doc_verification, exceptions, ocr_calls, ocr_returned, gemini_calls,
                   processed, db_documents, environ_path, tesseract_cmd, calls,
                   text, doc_type, fields, desk>>

\* validate_documents as a whole (validators.py lines 90-254), run on the
\* outcome of the setup and the outcomes of the documents in list order: the
\* loop stops at the first document that raises; the result is the set of
\* verdicts the call can return (they differ in the order of the cleaned lists).
RECURSIVE document_loop(_, _, _)
document_loop(outs, i, extracted) ==
    IF i > Len(outs) THEN [raised |-> FALSE, error |-> << >>, extracted |-> extracted]
    ELSE IF outs[i].fate = "fatal"
         THEN [raised |-> TRUE, error |-> outs[i].error, extracted |-> extracted]
    ELSE IF outs[i].fate = "skip" THEN document_loop(outs, i + 1, extracted)
    ELSE document_loop(outs, i + 1, structured_extraction(extracted, outs[i].g))

validate_documents(setup, outs) ==
    IF setup # "ok" THEN {error_verdict(<<setup>>)}
    ELSE LET r == document_loop(outs, 1, EmptyLists)
         IN  IF r.raised THEN {error_verdict(r.error)}
             ELSE IF clean_unhashable(r.extracted)
                  THEN {error_verdict(<<"unhashable type">>)}
             ELSE {completeness_verdict(c) : c \in cleaned_data(r.extracted, Len(Fields))}

Next ==
    \/ BeginCall
    \/ Setup
    \/ LoopEnd
    \/ SkipUnsupported
    \/ RasterizePdf
    \/ OpenImage
    \/ OcrPage
    \/ FieldExtract
    \/ Reconcile
    \/ VerifyDocumentsReturn
    \/ SubmitApplication

Spec == Init /\ [][Next]_vars

\* The call is one sequential coroutine: as long as a step is possible the
\* interpreter takes one (every request to poppler, tesseract, Gemini and
\* chroma is taken to return or raise).
FairSpec == Spec /\ WF_vars(Next)

-----------------------------------------------------------------------------
\* Concurrent sessions.  Streamlit runs each session's script in a thread of
\* one process, so verify_documents calls of two sessions interleave.  Each
\* call has its own documents and locals; PATH, tesseract_cmd and the
\* registry file belong to the process.  A call is given the outcome of each
\* of its documents in advance; the steps on one document touch only locals
\* and are taken as one step.

Callers == {1, 2}

\* The variables of the submission of the first part, which stand still here.
submission ==
    <<pc, remaining, doc, pages_left, extracted_data, student_df, verdict,
      doc_verification, result, exceptions, ocr_calls, ocr_returned, gemini_calls,
      processed, db_applications, db_documents, officer_applications,
      text, doc_type, fields, application_data, desk>>

DocumentOutcomes ==
    { Skipped,
      Fatal(pdf_error(<<"decode failed">>)),
      Read([kind |-> "error", obj |-> NoObject]),
      Read([kind |-> "object", obj |-> CompleteObject]),
      Read([kind |-> "object", obj |-> [CompleteObject EXCEPT !["board"] = JNull]]) }

DocumentLists ==
    { << >> } \cup {<<a>> : a \in DocumentOutcomes}
              \cup {<<a, b>> : a \in DocumentOutcomes, b \in DocumentOutcomes}

\* A session that is constructed (app.py lines 14-15) and has made no call.
NoCall ==
    [stage |-> "idle", documents |-> << >>, next |-> 1, path |-> 0, setup |-> "ok",
     extracted_data |-> EmptyLists, verdict |-> NoVerdict, doc_verification |-> NoVerdict]

\* Each session is constructed already or still to come (stage new: its
\* AdmissionAPI() has not run yet); PATH holds the poppler directory once for
\* every session constructed.
ConcurrentInit ==
    /\ InitProcess
    /\ loan_calls = << >>
    /\ text = << >>
    /\ doc_type = ""
    /\ fields = NoFields
    /\ db_applications = << >>
    /\ calls \in [Callers -> {[NoCall EXCEPT !.stage = "new"], NoCall}]
    /\ environ_path = Cardinality({c \in Callers : calls[c] = NoCall})

\* DocumentChecker.__init__ (document_checker.py line 16), right-hand side:
\* the constructor of a new session reads PATH.
InitReadPath(c) ==
    /\ calls[c].stage = "new"
    /\ calls' = [calls EXCEPT ![c].stage = "constructing", ![c].path = environ_path]
    /\ UNCHANGED <<ambient, submission>>

\* document_checker.py line 16, assignment: the value read, one directory
\* longer, is stored in os.environ and the session is ready.
InitWritePath(c) ==
    /\ calls[c].stage = "constructing"
    /\ environ_path' = calls[c].path + 1
    /\ calls' = [calls EXCEPT ![c] = NoCall]
    /\ UNCHANGED <<tesseract_cmd, submission>>

\* document_checker.py line 22, right-hand side: the call reads PATH.
ReadPath(c) ==
    /\ calls[c].stage = "idle"
    /\ \E docs \in DocumentLists :
          calls' = [calls EXCEPT ![c].stage = "path", ![c].documents = docs,
                                 ![c].path = environ_path]
    /\ UNCHANGED <<ambient, submission>>

\* document_checker.py line 22, assignment: the value read, one directory
\* longer, is stored in os.environ.
WritePath(c) ==
    /\ calls[c].stage = "path"
    /\ environ_path' = calls[c].path + 1
    /\ calls' = [calls EXCEPT ![c].stage = "start"]
    /\ UNCHANGED <<tesseract_cmd, submission>>

\* validators.py lines 95-117 for one caller.
CallSetup(c) ==
    /\ calls[c].stage = "start"
    /\ tesseract_cmd' = "C:\\Program Files\\Tesseract-OCR\\tesseract.exe"
    /\ \E o \in SetupOutcomes :
          calls' = IF o = "ok"
                   THEN [calls EXCEPT ![c].stage = "loop", ![c].extracted_data = EmptyLists]
                   ELSE [calls EXCEPT ![c].stage = "returned", ![c].setup = o,
                                      ![c].verdict = error_verdict(<<o>>)]
    /\ UNCHANGED <<environ_path, submission>>

\* validators.py lines 120-214 for one caller: one pass of the loop body.
CallDocument(c) ==
    /\ calls[c].stage = "loop"
    /\ calls[c].next <= Len(calls[c].documents)
    /\ LET d == calls[c].documents[calls[c].next]
       IN  calls' =
             IF d.fate = "fatal"
             THEN [calls EXCEPT ![c].stage = "returned", ![c].verdict = error_verdict(d.error)]
             ELSE IF d.fate = "skip"
                  THEN [calls EXCEPT ![c].next = @ + 1]
             ELSE [calls EXCEPT ![c].next = @ + 1,
                                ![c].extracted_data = structured_extraction(@, d.g)]
    /\ UNCHANGED <<ambient, submission>>

\* validators.py lines 216-254 for one caller.
CallReconcile(c) ==
    /\ calls[c].stage = "loop"
    /\ calls[c].next > Len(calls[c].documents)
    /\ IF clean_unhashable(calls[c].extracted_data)
       THEN calls' = [calls EXCEPT ![c].stage = "returned",
                                   ![c].verdict = error_verdict(<<"unhashable type">>)]
       ELSE \E cleaned \in cleaned_data(calls[c].extracted_data, Len(Fields)) :
               calls' = [calls EXCEPT ![c].stage = "returned",
                                      ![c].verdict = completeness_verdict(cleaned)]
    /\ UNCHANGED <<ambient, submission>>

\* document_checker.py lines 27-53 for one caller, after validate_documents
\* has returned: a valid verdict is stored in the "documents" collection that
\* all sessions share (db_manager.py lines 71-86).
CallReturn(c) ==
    /\ calls[c].stage = "returned"
    /\ IF calls[c].verdict.valid
       THEN \E o \in VerificationStoreOutcomes :
               /\ db_documents' = IF o = "stored" THEN db_documents + 1 ELSE db_documents
               /\ calls' = [calls EXCEPT ![c].stage = "verified",
                                          ![c].doc_verification =
                                              IF o = "collection unavailable"
                                              THEN checker_error_verdict(<<o>>)
                                              ELSE calls[c].verdict]
       ELSE /\ calls' = [calls EXCEPT ![c].stage = "verified",
                                       ![c].doc_verification = calls[c].verdict]
            /\ UNCHANGED db_documents
    /\ UNCHANGED <<ambient, db_applications, officer_applications, desk>>
    /\ UNCHANGED <<pc, remaining, doc, pages_left, extracted_data, student_df, verdict,
                   doc_verification, result, exceptions, ocr_calls, ocr_returned,
                   gemini_calls, processed, text, doc_type, fields, application_data>>

ConcurrentNext ==
    \E c \in Callers :
        \/ InitReadPath(c)
        \/ InitWritePath(c)
        \/ ReadPath(c)
        \/ WritePath(c)
        \/ CallSetup(c)
        \/ CallDocument(c)
        \/ CallReconcile(c)
        \/ CallReturn(c)

ConcurrentSpec == ConcurrentInit /\ [][ConcurrentNext]_vars

-----------------------------------------------------------------------------
\* The pattern strategy: DocumentChecker._extract_fields (document_checker.py
\* lines 82-132).  Each regular expression is computed on the characters of
\* the text as re does: the leftmost match of finditer, greedy runs, the
\* shortest lazy group that the lookahead accepts.  The alternatives of every
\* alternation begin differently, so at one position at most one can match.

\* A character class by its name.
InClass(class, c) ==
    CASE class = "\\s" -> c \in {" ", "\n", "\t"}
      [] class = "\\d" -> c \in Digits
      [] class = "[A-Z]" -> \E i \in 1..Len(UpperCase) : c = UpperCase[i]
      [] class = "[:\\s]" -> c \in {":", " ", "\n", "\t"}
      [] class = "[A-Za-z\\s]" -> IsLetter(c) \/ c \in {" ", "\n", "\t"}
      [] class = "[\\s\\w]" -> IsLetter(c) \/ c \in Digits \/ c \in {"_", " ", "\n", "\t"}
      [] class = "[\\s-]" -> c \in {"-", " ", "\n", "\t"}
      [] class = "[-/]" -> c \in {"-", "/"}
      [] OTHER -> FALSE

\* The position after the longest run of characters of a class that starts at
\* position p (p itself when there is none).
run_end(t, p, class) ==
    CHOOSE q \in p..(Len(t) + 1) :
        /\ \A r \in p..(q - 1) : InClass(class, t[r])
        /\ q = Len(t) + 1 \/ ~InClass(class, t[q])

\* A literal at position p; under re.IGNORECASE letters match in either case.
lit_at(t, p, lit, ignorecase) ==
    /\ p >= 1
    /\ p + Len(lit) - 1 <= Len(t)
    /\ IF ignorecase
       THEN lower(SubSeq(t, p, p + Len(lit) - 1)) = lower(lit)
       ELSE SubSeq(t, p, p + Len(lit) - 1) = lit

\* word\s+word...\s+word from position p (IGNORECASE): the position after the
\* last word, 0 without a match.
RECURSIVE words_end(_, _, _, _)
words_end(t, p, words, i) ==
    IF ~lit_at(t, p, words[i], TRUE) THEN 0
    ELSE IF i = Len(words) THEN p + Len(words[i])
    ELSE IF run_end(t, p + Len(words[i]), "\\s") = p + Len(words[i]) THEN 0
    ELSE words_end(t, run_end(t, p + Len(words[i]), "\\s"), words, i + 1)

\* (?:label|label|...)[:\s]+ from position p: the position of the first
\* character after the separators, 0 without a match.
value_start(t, p, labels) ==
    LET matching == {k \in 1..Len(labels) : words_end(t, p, labels[k], 1) # 0}
    IN  IF matching = {} THEN 0
        ELSE LET q == words_end(t, p, labels[CHOOSE k \in matching :
                                                \A j \in matching : k <= j], 1)
             IN  IF run_end(t, q, "[:\\s]") = q THEN 0 ELSE run_end(t, q, "[:\\s]")

\* One alternative of a lookahead: a word, followed by \s when space is set.
Stop(word, space) == [word |-> word, space |-> space]

\* (?=\n|$|stop|stop|...) at position p.
lookahead(t, p, stops, ignorecase) ==
    \/ p = Len(t) + 1
    \/ p <= Len(t) /\ t[p] = "\n"
    \/ \E k \in 1..Len(stops) :
          /\ lit_at(t, p, stops[k].word, ignorecase)
          /\ stops[k].space =>
                /\ p + Len(stops[k].word) <= Len(t)
                /\ InClass("\\s", t[p + Len(stops[k].word)])

\* Class+? followed by the lookahead, after a group that already reaches
\* position s: the last position of the shortest group, 0 without one.
lazy_end(t, s, class, stops, ignorecase) ==
    LET ends == {e \in (s + 1)..Len(t) :
                    /\ \A j \in (s + 1)..e : InClass(class, t[j])
                    /\ lookahead(t, e + 1, stops, ignorecase)}
    IN  IF ends = {} THEN 0 ELSE CHOOSE e \in ends : \A e2 \in ends : e <= e2

NoMatch == [found |-> FALSE, group |-> << >>]
Match(group) == [found |-> TRUE, group |-> group]

\* str.strip()
strip(s) ==
    LET inked == {i \in 1..Len(s) : ~InClass("\\s", s[i])}
    IN  IF inked = {} THEN << >>
        ELSE SubSeq(s, CHOOSE i \in inked : \A j \in inked : i <= j,
                       CHOOSE i \in inked : \A j \in inked : i >= j)

MarksheetStops ==
    << Stop(<<"r","o","l","l">>, FALSE), Stop(<<"c","l","a","s","s">>, FALSE), Stop(<<"o","f">>, TRUE),
       Stop(<<"r","e","g","i","s","t","r","a","t","i","o","n">>, FALSE) >>
IdStops ==
    << Stop(<<"m","a","l","e">>, FALSE), Stop(<<"f","e","m","a","l","e">>, FALSE), Stop(<<"s","e","x">>, FALSE),
       Stop(<<"g","e","n","d","e","r">>, FALSE), Stop(<<"f","a","t","h","e","r">>, FALSE), Stop(<<"m","o","t","h","e","r">>, FALSE),
       Stop(<<"d","o","b">>, FALSE) >>

DobLabels == << <<<<"d","a","t","e">>, <<"o","f">>, <<"b","i","r","t","h">>>>, <<<<"d","o","b">>>>, <<<<"b","o","r","n">>, <<"o","n">>>> >>
YearLabels == << <<<<"p","a","s","s">>>>, <<<<"e","x","a","m","i","n","a","t","i","o","n">>>>, <<<<"a","c","a","d","e","m","i","c">>, <<"y","e","a","r">>>>, <<<<"y","e","a","r">>>> >>
BoardLabels == << <<<<"b","o","a","r","d">>>>, <<<<"c","o","u","n","c","i","l">>>>, <<<<"i","s","s","u","e","d">>, <<"b","y">>>> >>
BoardWords == << <<"C","B","S","E">>, <<"I","C","S","E">>, <<"I","S","C">>, <<"S","T","A","T","E">>, <<"B","O","A","R","D">>, <<"C","O","U","N","C","I","L">> >>

\* lines 88 and 118: name[:\s]+([A-Z][A-Za-z\s]+?)(?=...) with IGNORECASE
name_at(t, p, stops) ==
    LET r == value_start(t, p, << <<<<"n","a","m","e">>>> >>)
    IN  IF r = 0 \/ r > Len(t) THEN NoMatch
        ELSE IF ~IsLetter(t[r]) \/ lazy_end(t, r, "[A-Za-z\\s]", stops, TRUE) = 0 THEN NoMatch
        ELSE Match(SubSeq(t, r, lazy_end(t, r, "[A-Za-z\\s]", stops, TRUE)))

\* line 92: ([A-Z][A-Za-z\s]+?)(?=...) without IGNORECASE
bare_name_at(t, p) ==
    IF ~InClass("[A-Z]", t[p]) \/ lazy_end(t, p, "[A-Za-z\\s]", MarksheetStops, FALSE) = 0 THEN NoMatch
    ELSE Match(SubSeq(t, p, lazy_end(t, p, "[A-Za-z\\s]", MarksheetStops, FALSE)))

digits_at(t, p, n) == p >= 1 /\ p + n - 1 <= Len(t) /\ \A j \in p..(p + n - 1) : InClass("\\d", t[j])

\* lines 97 and 123: (?:date\s+of\s+birth|dob|born\s+on)[:\s]+
\*                   ([\d]{2}[-/][\d]{2}[-/][\d]{4}|[\d]{4}[-/][\d]{2}[-/][\d]{2})
dob_at(t, p) ==
    LET r == value_start(t, p, DobLabels)
    IN  IF r = 0 THEN NoMatch
        ELSE IF \/ /\ digits_at(t, r, 2) /\ run_end(t, r + 2, "[-/]") > r + 2
                   /\ digits_at(t, r + 3, 2) /\ run_end(t, r + 5, "[-/]") > r + 5
                   /\ digits_at(t, r + 6, 4)
                \/ /\ digits_at(t, r, 4) /\ run_end(t, r + 4, "[-/]") > r + 4
                   /\ digits_at(t, r + 5, 2) /\ run_end(t, r + 7, "[-/]") > r + 7
                   /\ digits_at(t, r + 8, 2)
             THEN Match(SubSeq(t, r, r + 9))
        ELSE NoMatch

\* line 102: (?:pass|examination|academic\s+year|year)[:\s]+(20\d{2})
year_at(t, p) ==
    LET r == value_start(t, p, YearLabels)
    IN  IF r # 0 /\ lit_at(t, r, <<"2","0">>, TRUE) /\ digits_at(t, r + 2, 2)
        THEN Match(SubSeq(t, r, r + 3))
        ELSE NoMatch

\* line 107: (?:board|council|issued\s+by)[:\s]+
\*           ((?:CBSE|ICSE|ISC|STATE|BOARD|COUNCIL)[\s\w]+?)(?=\n|$|roll|class)
board_at(t, p) ==
    LET r == value_start(t, p, BoardLabels)
        stops == << Stop(<<"r","o","l","l">>, FALSE), Stop(<<"c","l","a","s","s">>, FALSE) >>
        words == {k \in 1..Len(BoardWords) : r # 0 /\ lit_at(t, r, BoardWords[k], TRUE)}
    IN  IF words = {} THEN NoMatch
        ELSE LET s == r + Len(BoardWords[CHOOSE k \in words : \A j \in words : k <= j]) - 1
             IN  IF lazy_end(t, s, "[\\s\\w]", stops, TRUE) = 0 THEN NoMatch
                 ELSE Match(SubSeq(t, r, lazy_end(t, s, "[\\s\\w]", stops, TRUE)))

\* line 112: total[:\s]+(\d+)|aggregate[:\s]+(\d+(?:\.\d+)?)
marks_at(t, p) ==
    LET r1 == value_start(t, p, << <<<<"t","o","t","a","l">>>> >>)
        r2 == value_start(t, p, << <<<<"a","g","g","r","e","g","a","t","e">>>> >>)
    IN  IF r1 # 0 /\ digits_at(t, r1, 1)
        THEN Match(SubSeq(t, r1, run_end(t, r1, "\\d") - 1))
        ELSE IF r2 # 0 /\ digits_at(t, r2, 1)
        THEN LET q == run_end(t, r2, "\\d")
             IN  IF q <= Len(t) /\ t[q] = "." /\ digits_at(t, q + 1, 1)
                 THEN Match(SubSeq(t, r2, run_end(t, q + 1, "\\d") - 1))
                 ELSE Match(SubSeq(t, r2, q - 1))
        ELSE NoMatch

\* line 128: (\d{4}[\s-]*\d{4}[\s-]*\d{4})
aadhar_at(t, p) ==
    IF ~digits_at(t, p, 4) THEN NoMatch
    ELSE LET q == run_end(t, p + 4, "[\\s-]")
         IN  IF ~digits_at(t, q, 4) THEN NoMatch
             ELSE LET q2 == run_end(t, q + 4, "[\\s-]")
                  IN  IF ~digits_at(t, q2, 4) THEN NoMatch
                      ELSE Match(SubSeq(t, p, q2 + 3))

\* line 129: .replace(' ', '').replace('-', '')
remove_space_dash(s) == SelectSeq(s, LAMBDA c : c # " " /\ c # "-")

\* matches[0] if matches else None: the group of the leftmost match, of the
\* matches found from each position of the text.
first_group(matches) ==
    LET at == {p \in DOMAIN matches : matches[p].found}
    IN  IF at = {} THEN JNull
        ELSE JStr(matches[CHOOSE p \in at : \A q \in at : p <= q].group)

stripped(v) == IF v = JNull THEN JNull ELSE JStr(strip(v.s))

extract_fields(t, type) ==
    IF type = "marksheet"
    THEN [returned |-> TRUE,
          keys |-> {"name", "dob", "passing_year", "board", "total_marks"},
          name |-> IF first_group([p \in 1..Len(t) |-> name_at(t, p, MarksheetStops)]) # JNull
                   THEN stripped(first_group([p \in 1..Len(t) |-> name_at(t, p, MarksheetStops)]))
                   ELSE stripped(first_group([p \in 1..Len(t) |-> bare_name_at(t, p)])),
          dob |-> first_group([p \in 1..Len(t) |-> dob_at(t, p)]),
          passing_year |-> first_group([p \in 1..Len(t) |-> year_at(t, p)]),
          board |-> stripped(first_group([p \in 1..Len(t) |-> board_at(t, p)])),
          total_marks |-> first_group([p \in 1..Len(t) |-> marks_at(t, p)]),
          aadhar |-> JNull]
    ELSE IF type = "id"
    THEN [returned |-> TRUE, keys |-> {"name", "dob", "aadhar"},
          name |-> stripped(first_group([p \in 1..Len(t) |-> name_at(t, p, IdStops)])),
          dob |-> first_group([p \in 1..Len(t) |-> dob_at(t, p)]),
          passing_year |-> JNull, board |-> JNull, total_marks |-> JNull,
          aadhar |-> IF first_group([p \in 1..Len(t) |-> aadhar_at(t, p)]) = JNull THEN JNull
                     ELSE JStr(remove_space_dash(first_group([p \in 1..Len(t) |-> aadhar_at(t, p)]).s))]
    ELSE [NoFields EXCEPT !.returned = TRUE]

\* The texts and document types the function is applied to: up to four lines,
\* a name, a date of birth, a board and a last line.
join_lines(a, b) ==
    IF a = << >> THEN b ELSE IF b = << >> THEN a ELSE a \o <<"\n">> \o b

Texts ==
    {join_lines(join_lines(join_lines(n, d), b), l) :
        n \in
    { <<"N","a","m","e",":"," ","A","s","h","a"," ","R","a","o">>,
      <<"A","s","h","a"," ","R","a","o">>,
      <<"N","A","M","E"," "," ","a","s","h","a"," ","r","a","o"," ","R","o","l","l"," ","1","2">> },
        d \in
    { <<"D","O","B",":"," ","1","2","-","0","5","-","2","0","0","4">>,
      <<"D","a","t","e"," ","o","f"," "," ","B","i","r","t","h",":"," ","2","0","0","4","/","0","5","/","1","2">>,
      << >> },
        b \in
    { <<"B","o","a","r","d",":"," ","C","B","S","E">>,
      <<"B","o","a","r","d",":"," ","C","B","S","E"," ","D","e","l","h","i">>,
      <<"I","s","s","u","e","d"," ","b","y",":"," ","I","C","S","E"," ","C","o","u","n","c","i","l"," ","c","l","a","s","s"," ","X">>,
      << >> },
        l \in
    { <<"T","o","t","a","l",":"," ","4","5","0">>,
      <<"A","g","g","r","e","g","a","t","e",":"," ","9","1",".","5">>,
      <<"Y","e","a","r",":"," ","2","0","2","2">>,
      <<"1","2","3","4"," ","5","6","7","8","-","9","0","1","2">> } }

PatternInit ==
    /\ InitProcess
    /\ environ_path = 1
    /\ loan_calls = << >>
    /\ db_applications = << >>
    /\ calls = << >>
    /\ text \in Texts
    /\ doc_type \in {"marksheet", "id", "transcript"}
    /\ fields = NoFields

ExtractFields ==
    /\ ~fields.returned
    /\ fields' = extract_fields(text, doc_type)
    /\ UNCHANGED <<text, doc_type, calls, ambient, application_data, desk>>
    /\ UNCHANGED <<pc, remaining, doc, pages_left, extracted_data, student_df, verdict,
                   doc_verification, result, exceptions, ocr_calls, ocr_returned,
                   gemini_calls, processed>>
    /\ UNCHANGED stores

PatternNext == ExtractFields

PatternSpec == PatternInit /\ [][PatternNext]_vars

-----------------------------------------------------------------------------
\* The admission officer's session: AdmissionAPI.update_application_status
\* and generate_admission_documents (api_interface.py lines 97-176) with
\* AdmissionOfficer.check_status and update_application_status
\* (admission_officer.py lines 13-34 and 91-108), DBManager
\* .update_application_status (db_manager.py lines 55-69) and the
\* DocumentGenerator.  ShortlistingAgent replaces its db by a bare chromadb
\* client (shortlisting_agent.py line 11), so its self.db.client raises and it
\* writes no application.

MaxOfficeCalls == 3

UpperChar(c) ==
    IF \E i \in 1..Len(LowerCase) : LowerCase[i] = c
    THEN UpperCase[CHOOSE i \in 1..Len(LowerCase) : LowerCase[i] = c]
    ELSE c

upper(s) == [i \in 1..Len(s) |-> UpperChar(s[i])]

\* admission_officer.py line 93
ValidStatuses == {"pending", "shortlisted", "rejected"}

\* The ids the officer may type: the one a submission gives and one nobody has.
AshaId == <<"a","s","h","a","_","r","a","o","_","p","h","d">>
OfficeIds == {AshaId, <<"n","o","n","e">>}

\* Requests to the collection: it answers, collection.get or
\* collection.update raises, or get_or_create_collection raises
\* ("collection unavailable").
StoreOutcomes == {"ok", "raise", "unavailable"}

\* DBManager.update_application_status (db_manager.py lines 55-69): True after
\* the update, None when the id is not in the collection (the function ends
\* without a return), False when a request inside the try raises (lines
\* 59-66); line 57 stands before the try, so its exception leaves the function.
db_update_application_status(db, app_id, new_status, o) ==
    IF o = "unavailable" THEN [db |-> db, returned |-> "raises"]
    ELSE IF o = "raise" THEN [db |-> db, returned |-> "False"]
    ELSE IF app_id \in DOMAIN db
         THEN [db |-> [db EXCEPT ![app_id].status = new_status], returned |-> "True"]
    ELSE [db |-> db, returned |-> "None"]

\* Mutant of officer_update_application_status: no check of new_status.
officer_update_any_status(db, applications, app_id, new_status, o) ==
    IF db_update_application_status(db, app_id, new_status, o).returned = "True"
    THEN [db |-> db_update_application_status(db, app_id, new_status, o).db,
          applications |-> put(applications, app_id, new_status),
          success |-> TRUE, error |-> ""]
    ELSE IF db_update_application_status(db, app_id, new_status, o).returned = "raises"
    \* lines 107-108: the error is the text of the exception
    THEN [db |-> db, applications |-> applications,
          success |-> FALSE, error |-> "collection unavailable"]
    ELSE [db |-> db, applications |-> applications,
          success |-> FALSE, error |-> "Failed to update status"]

\* AdmissionOfficer.update_application_status (admission_officer.py lines
\* 91-108): the store and the in-memory map after the call, and its result.
officer_update_application_status(db, applications, app_id, new_status, o) ==
    IF new_status \notin ValidStatuses
    THEN [db |-> db, applications |-> applications,
          success |-> FALSE, error |-> "Invalid status"]
    ELSE IF db_update_application_status(db, app_id, new_status, o).returned = "True"
    THEN [db |-> db_update_application_status(db, app_id, new_status, o).db,
          applications |-> put(applications, app_id, new_status),
          success |-> TRUE, error |-> ""]
    ELSE IF db_update_application_status(db, app_id, new_status, o).returned = "raises"
    \* lines 107-108: the error is the text of the exception
    THEN [db |-> db, applications |-> applications,
          success |-> FALSE, error |-> "collection unavailable"]
    ELSE [db |-> db, applications |-> applications,
          success |-> FALSE, error |-> "Failed to update status"]

NotFound ==
    [found |-> FALSE, status |-> "", student_name |-> << >>, program |-> << >>,
     email |-> << >>]

\* AdmissionOfficer.check_status (admission_officer.py lines 13-34): every
\* request stands inside the try, whatever raises gives {"found": False}.
check_status(db, app_id, o) ==
    IF o # "ok" \/ app_id \notin DOMAIN db THEN NotFound
    ELSE [found |-> TRUE, status |-> db[app_id].status, student_name |-> db[app_id].name,
          program |-> db[app_id].program, email |-> db[app_id].email]

\* The result of an AdmissionAPI call of the officer.
ApiResult(success, error, documents, student_id) ==
    [success |-> success, error |-> error, documents |-> documents,
     student_id |-> student_id]

\* error_handler.py lines 41-43, for the officer's calls.
unexpected_api_error == ApiResult(FALSE, "An unexpected error occurred", {}, << >>)

\* AdmissionAPI.update_application_status (api_interface.py lines 97-114)
\* under handle_exceptions.
UpdateApplicationStatus ==
    /\ office.n < MaxOfficeCalls
    /\ \E id \in OfficeIds, s \in {"pending", "shortlisted", "rejected", "enrolled"}, o \in StoreOutcomes, o2 \in StoreOutcomes :
          LET r == officer_update_application_status(db_applications,
                                                     officer_applications, id, s, o)
              \* lines 107-112: the student dictionary has the name alone
              notice == send_communication({"name"}, "shortlisted",
                                           {"program", "next_steps"})
              notified == /\ r.success
                          /\ s = "shortlisted"
                          /\ check_status(r.db, id, o2).found
          IN  /\ db_applications' = r.db
              /\ officer_applications' = r.applications
              /\ office' =
                    [op |-> "update_application_status", application_id |-> id,
                     new_status |-> s, n |-> office.n + 1,
                     officer |-> [success |-> r.success, error |-> r.error],
                     result |-> IF notified /\ notice # "sent"
                                THEN unexpected_api_error
                                ELSE ApiResult(r.success, r.error, {}, << >>),
                     sent |-> IF notified /\ notice = "sent"
                              THEN {"shortlisted"} ELSE {},
                     generated |-> {}]
    /\ UNCHANGED <<db_documents, db_loans, loan_calls>>
    /\ UNCHANGED <<pc, remaining, doc, pages_left, extracted_data, student_df, verdict,
                   doc_verification, result, exceptions, ocr_calls, ocr_returned,
                   gemini_calls, processed, environ_path, tesseract_cmd, calls, text,
                   doc_type, fields, application_data>>

\* DocumentGenerator.generate_admission_letter (document_generator.py lines
\* 64-98): program_duration[program] raises for a program it does not list.
generate_admission_letter(program, app_id) ==
    IF program \in Programs
    THEN [success |-> TRUE,
          student_id |-> <<"2","0","2","5">> \o upper(SubSeq(program, 1, 2))
                             \o SubSeq(app_id, Len(app_id) - 3, Len(app_id))]
    ELSE [success |-> FALSE, student_id |-> << >>]

\* DocumentGenerator.generate_fee_slip (lines 100-127): the fee structure of
\* an unlisted program is empty and its total 0; nothing raises.
generate_fee_slip(program) ==
    [success |-> TRUE,
     amount |-> CASE program = <<"U","n","d","e","r","g","r","a","d","u","a","t","e">> -> 34000
                  [] program = <<"G","r","a","d","u","a","t","e">> -> 46500
                  [] program = <<"P","h","D">> -> 55000
                  [] OTHER -> 0]

\* The attributes AdmissionAPI.__init__ sets (api_interface.py lines 14-20).
ApiAttributes ==
    {"admission_officer", "document_checker", "shortlisting_agent",
     "student_counselor", "loan_agent", "document_generator"}

\* Mutant of refused: an application that is found is served whatever its status.
refused_when_not_found(details) == ~details.found

\* api_interface.py line 121: the guard of generate_admission_documents.
refused(details) == ~details.found \/ details.status # "shortlisted"

\* AdmissionAPI.generate_admission_documents (api_interface.py lines 116-176)
\* under handle_exceptions.
GenerateAdmissionDocuments ==
    /\ office.n < MaxOfficeCalls
    /\ \E id \in OfficeIds, o \in StoreOutcomes :
          LET details == check_status(db_applications, id, o)
              letter == generate_admission_letter(details.program, id)
              slip == generate_fee_slip(details.program)
              \* lines 150-158: the student dictionary has name and email
              notice == send_communication({"name", "email"}, "shortlisted",
                                           {"program", "next_steps"})
              call == [op |-> "generate_admission_documents", application_id |-> id,
                       new_status |-> "", n |-> office.n + 1,
                       officer |-> [success |-> FALSE, error |-> ""]]
          IN  IF refused(details)
              THEN /\ office' =
                         call @@ [result |-> ApiResult(FALSE,
                                       "Application not found or not shortlisted", {}, << >>),
                                  sent |-> {}, generated |-> {}]
                   /\ UNCHANGED db_documents
              ELSE IF ~letter.success
              THEN /\ office' =
                         call @@ [result |-> ApiResult(FALSE,
                                       "Failed to generate admission letter", {}, << >>),
                                  sent |-> {}, generated |-> {}]
                   /\ UNCHANGED db_documents
              ELSE IF ~slip.success
              THEN /\ office' =
                         call @@ [result |-> ApiResult(FALSE,
                                       "Failed to generate fee slip", {}, << >>),
                                  sent |-> {}, generated |-> {"admission_letter"}]
                   /\ UNCHANGED db_documents
              ELSE IF notice # "sent"
              THEN /\ office' =
                         call @@ [result |-> unexpected_api_error, sent |-> {},
                                  generated |-> {"admission_letter", "fee_slip"}]
                   /\ UNCHANGED db_documents
              ELSE IF "db" \notin ApiAttributes
              \* line 161: self.db raises AttributeError
              THEN /\ office' =
                         call @@ [result |-> unexpected_api_error, sent |-> {"shortlisted"},
                                  generated |-> {"admission_letter", "fee_slip"}]
                   /\ UNCHANGED db_documents
              ELSE /\ office' =
                         call @@ [result |-> ApiResult(TRUE, "",
                                       {"admission_letter", "fee_slip"}, letter.student_id),
                                  sent |-> {"shortlisted"},
                                  generated |-> {"admission_letter", "fee_slip"}]
                   /\ db_documents' = db_documents + 1
    /\ UNCHANGED <<db_applications, officer_applications, db_loans, loan_calls>>
    /\ UNCHANGED <<pc, remaining, doc, pages_left, extracted_data, student_df, verdict,
                   doc_verification, result, exceptions, ocr_calls, ocr_returned,
                   gemini_calls, processed, environ_path, tesseract_cmd, calls, text,
                   doc_type, fields, application_data>>

\* AdmissionOfficer.process_application (admission_officer.py lines 59-89)
\* while the officer works: a submission stores a pending application.
ProcessApplication ==
    /\ \E data \in ApplicationData :
       \E o \in AddOutcomes(db_applications, application_id(data)) :
          IF validate_application_data(data) # << >> \/ o = "raise"
          \* lines 84-89: the exception is caught, nothing is stored
          THEN UNCHANGED <<db_applications, officer_applications>>
          \* line 73 runs whether collection.add added the record or left an
          \* existing one alone
          ELSE /\ db_applications' = store_application(db_applications, data, o)
               /\ officer_applications' =
                     put(officer_applications, application_id(data), "pending")
    /\ UNCHANGED <<db_documents, office, db_loans, loan_calls>>
    /\ UNCHANGED <<pc, remaining, doc, pages_left, extracted_data, student_df, verdict,
                   doc_verification, result, exceptions, ocr_calls, ocr_returned,
                   gemini_calls, processed, environ_path, tesseract_cmd, calls, text,
                   doc_type, fields, application_data>>

OfficeNext ==
    \/ UpdateApplicationStatus
    \/ GenerateAdmissionDocuments
    \/ ProcessApplication

\* The process starts as in Init: the applications collection is empty or
\* holds one pending application, the in-memory map is empty.
OfficeSpec == Init /\ [][OfficeNext]_vars

-----------------------------------------------------------------------------
\* The loan desk: LoanAgent.process_loan_request (loan_agent.py lines 12-60)
\* called through AdmissionAPI.process_loan_request (api_interface.py lines
\* 60-63) by the sessions of two students, with _verify_student_eligibility
\* (lines 62-81), _check_budget_availability (lines 83-100),
\* generate_loan_report (lines 126-153), DBManager.get_loan_statistics and
\* store_loan_application (db_manager.py lines 119-136 and 88-102).  Each
\* request to the store is a step of its own; the officer may change the
\* status of an application between two of them.

\* config.py line 32: float(os.getenv('LOAN_ANNUAL_BUDGET', '1000000'))
LOAN_ANNUAL_BUDGET == 1000000

\* Mutant of application_metadata: the student's name is kept in the metadata.
application_metadata_with_student_name(rec) ==
    [status |-> rec.status, program |-> rec.program, submission_date |-> "",
     student_name |-> rec.name]

\* The metadata store_application gives a record (db_manager.py lines 43-47);
\* the name is in the document only.
application_metadata(rec) ==
    [status |-> rec.status, program |-> rec.program, submission_date |-> ""]

\* collection.get(where={key: value, ...}): the ids whose metadata has every
\* key with the value.
where_ids(db, where) ==
    {id \in DOMAIN db :
        \A k \in DOMAIN where :
            /\ k \in DOMAIN application_metadata(db[id])
            /\ application_metadata(db[id])[k] = where[k]}

\* A where of two keys is read as their conjunction by older chroma
\* versions and rejected with ValueError by newer ones; get_collection may
\* raise as well.
WhereOutcomes == {"and", "ValueError", "unavailable"}

\* Mutant of verify_student_eligibility: every student is eligible.
verify_student_eligibility_any(db, info, o) == TRUE

\* LoanAgent._verify_student_eligibility (loan_agent.py lines 62-81); the
\* ids of the model give a student and program one application at most, so
\* metadatas[0] is the metadata of that one.
verify_student_eligibility(db, info, o) ==
    IF o # "and" THEN FALSE
    ELSE LET ids == where_ids(db, [student_name |-> info.name, program |-> info.program])
         IN  IF ids = {} THEN FALSE
             ELSE application_metadata(db[CHOOSE id \in ids : TRUE]).status
                     \in {"shortlisted", "enrolled"}

\* DBManager.get_loan_statistics (db_manager.py lines 119-136).  In the
\* generator of lines 125-129 the condition reads doc before the second for
\* binds it: with one loan or more it raises UnboundLocalError, with none it
\* sums nothing.  A request to the collection that raises leaves the function
\* too (there is no try).
get_loan_statistics(loans, o) ==
    IF o = "ok" /\ DOMAIN loans = {}
    THEN [raised |-> FALSE, total_amount_approved |-> 0]
    ELSE [raised |-> TRUE, total_amount_approved |-> 0]

\* LoanAgent._check_budget_availability (loan_agent.py lines 83-100) with
\* generate_loan_report (lines 126-153), whose answer to an exception has no
\* total_amount_approved.
check_budget_availability(loans, amount, o) ==
    IF get_loan_statistics(loans, o).raised
    THEN [available |-> FALSE, reason |-> "Error checking budget", suggested_amount |-> -1]
    ELSE IF amount > LOAN_ANNUAL_BUDGET - get_loan_statistics(loans, o).total_amount_approved
    THEN [available |-> FALSE, reason |-> "Insufficient budget",
          suggested_amount |->
              LOAN_ANNUAL_BUDGET - get_loan_statistics(loans, o).total_amount_approved]
    ELSE [available |-> TRUE, reason |-> "", suggested_amount |-> -1]

\* db_manager.py line 91: f"loan_{student_name}_{amount}".lower().replace(' ', '_');
\* the digits of the amount are kept as the number.
loan_id(info, amount) ==
    <<replace_space(lower(<<"l","o","a","n","_">> \o info.name \o <<"_">>)), amount>>

\* DBManager.store_loan_application (db_manager.py lines 88-102): the
\* document carries the status approved, the metadata the status pending.
store_loan_application(loans, info, amount, o) ==
    IF o = "added"
    THEN put(loans, loan_id(info, amount),
             [student_name |-> info.name, program |-> info.program, amount |-> amount,
              status |-> "approved", metadata_status |-> "pending"])
    ELSE loans

NoLoanResult ==
    [returned |-> FALSE, approved |-> FALSE, reason |-> "", amount |-> 0,
     suggested_amount |-> -1, error_type |-> ""]

NoLoanCall ==
    [stage |-> "idle", amount |-> 0, student_info |-> [name |-> << >>, program |-> << >>],
     held |-> FALSE, result |-> NoLoanResult]

\* A session calls process_loan_request.
LoanCall(c) ==
    /\ loan_calls[c].stage = "idle"
    \* app.py lines 134 and 149-152: the student of the stored application or a
    \* student who never applied
    /\ \E amount \in {500000, 600000, 2000000},
          info \in { [name |-> AshaRao, program |-> <<"P","h","D">>],
                     [name |-> <<"R","a","v","i">>,
                      program |-> <<"G","r","a","d","u","a","t","e">>] } :
          loan_calls' = [loan_calls EXCEPT ![c] =
                            [NoLoanCall EXCEPT !.stage = "called", !.amount = amount,
                                               !.student_info = info]]
    /\ UNCHANGED <<office, db_loans>>
    /\ UNCHANGED stores
    /\ UNCHANGED <<pc, remaining, doc, pages_left, extracted_data, student_df, verdict,
                   doc_verification, result, exceptions, ocr_calls, ocr_returned,
                   gemini_calls, processed, environ_path, tesseract_cmd, calls, text,
                   doc_type, fields, application_data>>

\* The application store holds an application of the student for the program
\* with status shortlisted or enrolled (history for the properties: what the
\* store held when the call asked).
holds_application(db, info) ==
    \E id \in DOMAIN db :
        /\ db[id].name = info.name
        /\ db[id].program = info.program
        /\ db[id].status \in {"shortlisted", "enrolled"}

\* The next request of the call to the store and what follows it up to the
\* next request or the return: the eligibility query (lines 16-20), the
\* budget query (lines 23-29), the terms and the storing (lines 32-56); an
\* exception of the storing becomes LoanProcessingError (line 60), which
\* handle_exceptions answers (error_handler.py lines 38-40).
LoanStep(c) ==
    /\ loan_calls[c].stage \in {"called", "eligible", "funded"}
    /\ \E w \in WhereOutcomes, q \in StoreOutcomes,
          o \in AddOutcomes(db_loans, loan_id(loan_calls[c].student_info,
                                              loan_calls[c].amount)) :
          LET call == loan_calls[c]
              budget == check_budget_availability(db_loans, call.amount, q)
              return(r) == [loan_calls EXCEPT ![c].stage = "returned", ![c].result = r]
          IN  CASE call.stage = "called" ->
                     /\ loan_calls' =
                           IF verify_student_eligibility(db_applications,
                                                         call.student_info, w)
                           THEN [loan_calls EXCEPT
                                    ![c].stage = "eligible",
                                    ![c].held = holds_application(db_applications,
                                                                  call.student_info)]
                           ELSE [return([NoLoanResult EXCEPT
                                           !.returned = TRUE,
                                           !.reason = "Student not eligible for loan"])
                                 EXCEPT ![c].held = holds_application(db_applications,
                                                                     call.student_info)]
                     /\ UNCHANGED db_loans
                [] call.stage = "eligible" ->
                     /\ loan_calls' =
                           IF budget.available
                           THEN [loan_calls EXCEPT ![c].stage = "funded"]
                           ELSE return([NoLoanResult EXCEPT
                                           !.returned = TRUE,
                                           !.reason = budget.reason,
                                           !.suggested_amount = budget.suggested_amount])
                     /\ UNCHANGED db_loans
                [] call.stage = "funded" ->
                     /\ db_loans' = store_loan_application(db_loans, call.student_info,
                                                           call.amount, o)
                     /\ loan_calls' =
                           IF o = "raise"
                           THEN return([NoLoanResult EXCEPT
                                           !.returned = TRUE,
                                           !.reason = "Error processing loan request",
                                           !.error_type = "loan_processing"])
                           ELSE return([NoLoanResult EXCEPT
                                           !.returned = TRUE, !.approved = TRUE,
                                           !.amount = call.amount])
    /\ UNCHANGED office
    /\ UNCHANGED stores
    /\ UNCHANGED <<pc, remaining, doc, pages_left, extracted_data, student_df, verdict,
                   doc_verification, result, exceptions, ocr_calls, ocr_returned,
                   gemini_calls, processed, environ_path, tesseract_cmd, calls, text,
                   doc_type, fields, application_data>>

\* Two sessions are constructed, each has appended the poppler directory.
LoanInit ==
    /\ InitProcess
    /\ environ_path = Cardinality(Callers)
    /\ loan_calls = [c \in Callers |-> NoLoanCall]
    /\ calls = << >>
    /\ text = << >>
    /\ doc_type = ""
    /\ fields = NoFields

LoanNext ==
    \/ \E c \in Callers : LoanCall(c)
    \/ \E c \in Callers : LoanStep(c)
    \/ UpdateApplicationStatus

LoanSpec == LoanInit /\ [][LoanNext]_vars

-----------------------------------------------------------------------------
\* Vocabulary of the properties.

\* validate_documents has returned and its locals are still in view.
Returned == pc = "Validated"

\* An observation that is not empty: a non-empty string, a number other than
\* zero, a non-empty array.
NonEmpty(v) ==
    \/ v.t = "str" /\ v.s # << >>
    \/ v.t = "num" /\ v.n # 0
    \/ v.t = "list" /\ v.n > 0

Observations(f) == {extracted_data[f][i] : i \in 1..Len(extracted_data[f])}
HasObservation(f) == \E v \in Observations(f) : NonEmpty(v)
Complete == \A f \in {"name", "dob", "passing_year", "board", "gender"} : HasObservation(f)

\* The exceptions of the call that were not absorbed by the structured-
\* extraction step.
Escaped == {e \in exceptions : e.where # "gemini"}

Contains(seq, x) == \E i \in 1..Len(seq) : seq[i] = x

UnsupportedNames == { <<"c",".","d","o","c","x">>, <<"p","d","f">> }

-----------------------------------------------------------------------------
\* C1: completeness gate.  When reconciliation has been reached and has
\* completed (no exception escaped) and some required field has no non-empty
\* observation, the verdict is valid=false with status failed, never success
\* and never error.
C1_CompletenessGate ==
    (Returned /\ Escaped = {} /\ ~Complete)
        => (verdict.valid = FALSE /\ verdict.verification_status = "failed")

\* C1 witness: a returned call in which some required fields were observed
\* and another was not, with the failed verdict.
C1_Witness ==
    /\ Returned
    /\ Escaped = {}
    /\ HasObservation("name")
    /\ ~HasObservation("board")
    /\ verdict.verification_status = "failed"

\* C2: acceptance is gated on the verdict.  The applications collection
\* changes only under a verdict with valid=true, and with a failed or error
\* verdict submit_application stores nothing and returns success=false with
\* the verdict's reason.
C2_AcceptanceGated ==
    [][ /\ (db_applications' # db_applications
              \/ officer_applications' # officer_applications)
            => doc_verification.valid
        /\ (pc = "Verified" /\ ~doc_verification.valid)
            => /\ result'.returned
               /\ result'.success = FALSE
               /\ result'.error = doc_verification.reason
               /\ result'.error # NoMsg
               /\ UNCHANGED <<db_applications, officer_applications>> ]_vars

\* C2 witness: a submission that ended under a failed verdict, answered with
\* the verdict's reason.
C2_Witness ==
    /\ pc = "Done"
    /\ doc_verification.verification_status = "failed"
    /\ result.returned
    /\ ~result.success
    /\ result.error = doc_verification.reason
    /\ result.error.prefix = "Missing required fields"

\* C3: verdict rule.  A call in which no exception escaped returns valid=true
\* with status success exactly when every required field has a non-empty
\* observation (the code never asks for a registry match), and valid=false
\* with status failed and a reason in every other case.
C3_VerdictRule ==
    (Returned /\ Escaped = {})
        => /\ (verdict.valid /\ verdict.verification_status = "success") <=> Complete
           /\ ~Complete => /\ verdict.valid = FALSE
                           /\ verdict.verification_status = "failed"
                           /\ "reason" \in verdict.keys
                           /\ verdict.reason # NoMsg

\* C3 witness: a successful verdict of a call with every field observed.
C3_Witness ==
    /\ Returned
    /\ Complete
    /\ verdict.valid
    /\ verdict.verification_status = "success"

\* C4 as stated: every exception raised anywhere during the call ends in an
\* error verdict that carries its text.
C4_AnyExceptionIsError ==
    Returned =>
        \A e \in exceptions :
            /\ verdict.valid = FALSE
            /\ verdict.verification_status = "error"
            /\ Contains(verdict.error, e.text)

\* C4 amended: every exception raised outside the structured-extraction step
\* (registry, model, rasterization, image decoding, OCR, reconciliation) ends
\* the call at once in a verdict valid=false, status=error whose error and
\* reason carry the text of the exception; the call does not go on and does
\* not return failed.
C4_EscapedExceptionIsError ==
    \A e \in Escaped :
        /\ Returned
        /\ verdict.valid = FALSE
        /\ verdict.verification_status = "error"
        /\ Contains(verdict.error, e.text)
        /\ Contains(verdict.reason.text, e.text)
        /\ verdict.reason.prefix = "Document processing failed"

\* C4 witness: the registry could not be read and the call returned the error
\* verdict.
C4_Witness ==
    /\ Returned
    /\ [where |-> "setup", text |-> "registry unreadable"] \in exceptions
    /\ verdict.verification_status = "error"

\* C5 as stated: for every list of documents, when no OCR invocation returns
\* (OCR raises for every page of every document) the status is error.
C5_OcrAlwaysRaisesIsError ==
    (Returned /\ ocr_returned = 0) => verdict.verification_status = "error"

\* C5 amended: when OCR is invoked at least once (the list holds a PDF page or
\* an image that the loop reaches) and raises for every page, the status is
\* error, not failed.
C5_OcrInvokedAndRaisesIsError ==
    (Returned /\ ocr_calls >= 1 /\ ocr_returned = 0)
        => (verdict.valid = FALSE /\ verdict.verification_status = "error")

\* C5 witness: a call whose only OCR invocation raised.
C5_Witness ==
    /\ Returned
    /\ ocr_calls = 1
    /\ ocr_returned = 0
    /\ \E e \in exceptions : e.where = "ocr"
    /\ verdict.verification_status = "error"

\* C6: a per-page OCR timeout is not fatal: the remaining pages and documents
\* are processed and the timeout alone does not make the status error.
C6_TimeoutNotFatal ==
    (Returned /\ Escaped # {} /\ \A e \in Escaped : e.text = "tesseract timeout")
        => /\ verdict.verification_status # "error"
           /\ remaining = 0
           /\ pages_left = 0

\* C7: a rasterization failure is local to its document: the other documents
\* are processed and the status is success or failed, not error.
C7_RasterizationLocal ==
    (Returned /\ Escaped # {} /\ \A e \in Escaped : e.where = "rasterize")
        => /\ verdict.verification_status \in {"success", "failed"}
           /\ remaining = 0

\* C8: an unsupported document is skipped.  The step that fetches a document
\* that is neither PDF nor image goes back to the head of the loop and leaves
\* the observations, the OCR and Gemini invocation counts, the exceptions and
\* the verdict as they were, so the rest of the call, and with it the verdict,
\* is that of the call without the document.
C8_UnsupportedSkipped ==
    [][ (pc = "Loop" /\ remaining' = remaining - 1 /\ doc' \in UnsupportedNames)
            => /\ pc' = "Loop"
               /\ UNCHANGED <<extracted_data, ocr_calls, ocr_returned, gemini_calls,
                              exceptions, verdict, pages_left, doc_verification, result>>
               /\ UNCHANGED stores ]_vars

\* C8 witness: an unsupported document has just been skipped after an earlier
\* document went through OCR and structured extraction.
C8_Witness ==
    /\ pc = "Loop"
    /\ doc \in UnsupportedNames
    /\ gemini_calls = 1
    /\ ocr_calls >= 1

\* C9: a structured-extraction failure is absorbed per document.  The failing
\* step adds no observation, keeps the observations of the other documents,
\* goes on with the next document, and a call whose only exceptions are such
\* failures does not return status error.
C9_ExtractionFailureAbsorbed ==
    /\ [][ (pc = "Gemini" /\ exceptions' # exceptions)
              => /\ extracted_data' = extracted_data
                 /\ pc' = "Loop"
                 /\ remaining' = remaining
                 /\ verdict' = verdict ]_vars
    /\ [](( Returned /\ exceptions # {} /\ Escaped = {})
              => verdict.verification_status \in {"success", "failed"})

\* C9 witness: a call returned success although the structured extraction of
\* one of its documents failed.
C9_Witness ==
    /\ Returned
    /\ \E e \in exceptions : e.where = "gemini"
    /\ Escaped = {}
    /\ verdict.verification_status = "success"

-----------------------------------------------------------------------------
\* Per-field normalization as the specification describes it (sections 4.4
\* and 8); the code has no counterpart.  Text fields compare without case and
\* whitespace, dates and numbers by their digits, a date in the order year,
\* month, day whichever of DD-MM-YYYY and YYYY-MM-DD it was written in.

digits_of(chars) == SelectSeq(chars, LAMBDA c : c \in Digits)

normalize_text(chars) == SelectSeq(lower(chars), LAMBDA c : c # " ")

normalize_date(chars) ==
    IF Len(chars) = 10 /\ chars[3] \in {"-", "/"} /\ chars[6] \in {"-", "/"}
    THEN SubSeq(digits_of(chars), 5, 8) \o SubSeq(digits_of(chars), 3, 4)
         \o SubSeq(digits_of(chars), 1, 2)
    ELSE digits_of(chars)

normalize(f, v) ==
    IF v.t # "str" THEN v
    ELSE IF f = "dob" THEN JStr(normalize_date(v.s))
    ELSE IF f = "passing_year" THEN JStr(digits_of(v.s))
    ELSE JStr(normalize_text(v.s))

\* C10: reconciliation de-duplicates modulo normalization: two members of a
\* field's set in the cleaned field set are never equal after normalization
\* (dob "2004-05-12" and "12-05-2004" give one member, not two).
C10_DedupModuloNormalization ==
    (Returned /\ "extracted_data" \in verdict.keys)
        => \A f \in DOMAIN verdict.extracted_data :
              \A i \in DOMAIN verdict.extracted_data[f] :
                  \A j \in DOMAIN verdict.extracted_data[f] :
                      normalize(f, verdict.extracted_data[f][i])
                          = normalize(f, verdict.extracted_data[f][j]) => i = j

-----------------------------------------------------------------------------
\* C11: cleaned field set invariant.  In every verdict that carries a cleaned
\* field set (success and failed), a field is a key of it exactly when some
\* document of the call gave a non-empty observation of the field, every
\* listed value is such an observation of that field, and no value is listed
\* twice.
C11_CleanedFieldSet ==
    (Returned /\ "extracted_data" \in verdict.keys)
        => /\ \A f \in FieldSet : f \in DOMAIN verdict.extracted_data <=> HasObservation(f)
           /\ \A f \in DOMAIN verdict.extracted_data :
                 /\ \A i \in DOMAIN verdict.extracted_data[f] :
                       /\ verdict.extracted_data[f][i] \in Observations(f)
                       /\ NonEmpty(verdict.extracted_data[f][i])
                 /\ \A i \in DOMAIN verdict.extracted_data[f] :
                       \A j \in DOMAIN verdict.extracted_data[f] :
                          verdict.extracted_data[f][i] = verdict.extracted_data[f][j]
                              => i = j

\* C11 witness: two documents gave the same name and none a non-empty board;
\* the verdict lists the name once and has no key board.
C11_Witness ==
    /\ Returned
    /\ "extracted_data" \in verdict.keys
    /\ Len(extracted_data["name"]) = 2
    /\ extracted_data["name"][1] = extracted_data["name"][2]
    /\ "name" \in DOMAIN verdict.extracted_data
    /\ Len(verdict.extracted_data["name"]) = 1
    /\ "board" \notin DOMAIN verdict.extracted_data

-----------------------------------------------------------------------------
\* The same documents in another order.
Orderings(outs) ==
    {[i \in 1..Len(outs) |-> outs[p[i]]] :
        p \in {q \in [1..Len(outs) -> 1..Len(outs)] :
                 \A i \in 1..Len(outs) : \A j \in 1..Len(outs) : q[i] = q[j] => i = j}}

\* What C12 compares: the validity flag, the status and the cleaned field set
\* with each field's list taken as a set (the empty mapping when the verdict
\* carries none).
Range(l) == {l[i] : i \in DOMAIN l}
Outcome(v) ==
    [valid |-> v.valid, verification_status |-> v.verification_status,
     cleaned |-> IF "extracted_data" \in v.keys
                 THEN [f \in DOMAIN v.extracted_data |-> Range(v.extracted_data[f])]
                 ELSE << >>]

SetupOutcome ==
    IF \E e \in exceptions : e.where = "setup"
    THEN (CHOOSE e \in exceptions : e.where = "setup").text
    ELSE "ok"

\* C12: reconciliation is commutative.  The verdict of the call is one that
\* validate_documents gives for the documents in the order they came, and for
\* the same documents with the same per-document outcomes in any other order
\* the validity flag, the status and the cleaned field set (as sets per field)
\* are the same.
C12_ReconciliationCommutative ==
    Returned =>
        /\ verdict \in validate_documents(SetupOutcome, processed)
        /\ \A outs \in Orderings(processed) :
              \A v \in validate_documents(SetupOutcome, outs) :
                  Outcome(v) = Outcome(verdict)

\* C12 witness: two documents gave different values for the name and both are
\* in the cleaned field set of the verdict.
C12_Witness ==
    /\ Returned
    /\ Len(processed) = 2
    /\ processed[1].fate = "read" /\ processed[2].fate = "read"
    /\ processed[1].g.kind = "object" /\ processed[2].g.kind = "object"
    /\ processed[1].g.obj # processed[2].g.obj
    /\ "extracted_data" \in verdict.keys
    /\ "name" \in DOMAIN verdict.extracted_data
    /\ Len(verdict.extracted_data["name"]) = 2

-----------------------------------------------------------------------------
\* C13: on a completeness failure the verdict reports the missing fields.  The
\* reason of a failed verdict names every required field that has no non-empty
\* observation and no field that has one, and the verdict carries the cleaned
\* field set, whose keys are the fields that were observed.
C13_MissingFieldsReported ==
    (Returned /\ verdict.verification_status = "failed")
        => /\ verdict.valid = FALSE
           /\ "reason" \in verdict.keys
           /\ verdict.reason.prefix = "Missing required fields"
           /\ verdict.reason.missing # {}
           /\ \A f \in {"name", "dob", "passing_year", "board", "gender"} :
                 f \in verdict.reason.missing <=> ~HasObservation(f)
           /\ \A f \in verdict.reason.missing :
                 f \in {"name", "dob", "passing_year", "board", "gender"}
           /\ "extracted_data" \in verdict.keys
           /\ DOMAIN verdict.extracted_data = {f \in FieldSet : HasObservation(f)}

\* C13 witness: name and dob were extracted and board was not; the failed
\* verdict names board, names neither name nor dob, and carries both values.
C13_Witness ==
    /\ Returned
    /\ verdict.verification_status = "failed"
    /\ HasObservation("name") /\ HasObservation("dob") /\ ~HasObservation("board")
    /\ "board" \in verdict.reason.missing
    /\ "name" \notin verdict.reason.missing
    /\ "dob" \notin verdict.reason.missing
    /\ {"name", "dob"} \subseteq DOMAIN verdict.extracted_data

-----------------------------------------------------------------------------
\* Registry matching as the specification describes it (section 4.4 step 4);
\* the code reads the registry and has no counterpart.  A row scores one point
\* for each field of the cleaned field set of which some listed value equals
\* the row's value after normalization; the best candidate is the first row
\* with the highest score, which must be at least 1.

score(row, cleaned) ==
    Cardinality({f \in DOMAIN cleaned :
                    \E i \in DOMAIN cleaned[f] :
                        normalize(f, cleaned[f][i]) = normalize(f, row[f])})

is_best(rows, k, cleaned) ==
    /\ score(rows[k], cleaned) >= 1
    /\ \A j \in DOMAIN rows : score(rows[j], cleaned) <= score(rows[k], cleaned)
    /\ \A j \in 1..(k - 1) : score(rows[j], cleaned) < score(rows[k], cleaned)

\* C15: best match.  When the cleaned field set is complete and the registry
\* holds rows with different scores, the verdict reports the row with the
\* highest score as the matched student, with that score.
C15_BestMatch ==
    (/\ Returned
     /\ verdict.verification_status = "success"
     /\ \E j \in DOMAIN student_df : \E k \in DOMAIN student_df :
           score(student_df[j], verdict.extracted_data)
               # score(student_df[k], verdict.extracted_data))
        => \E k \in DOMAIN student_df :
              /\ is_best(student_df, k, verdict.extracted_data)
              /\ match_score(verdict) = score(student_df[k], verdict.extracted_data)
              /\ matched_student(verdict) = student_df[k]

-----------------------------------------------------------------------------
\* The stages of validate_documents before it returns, and the work a call
\* has left in each: the documents not fetched weigh most, then the stage of
\* the document in hand, then its pages not yet read.
CallStages == {"Start", "Loop", "Ocr", "Gemini", "Reconcile"}

StageWeight == MaxPages + 3

WorkLeft ==
    CASE pc = "Start" -> (MaxDocs + 1) * StageWeight + 3
      [] pc = "Loop" -> remaining * StageWeight + 3
      [] pc = "Ocr" -> remaining * StageWeight + 4 + pages_left
      [] pc = "Gemini" -> remaining * StageWeight + 4
      [] pc = "Reconcile" -> 1
      [] OTHER -> 0

Terminal ==
    /\ verdict.verification_status \in {"success", "failed", "error"}
    /\ verdict.valid <=> verdict.verification_status = "success"

NoRetry ==
    pc \in CallStages =>
        /\ WorkLeft' < WorkLeft
        /\ ocr_calls' # ocr_calls
              => (pc = "Ocr" /\ ocr_calls' = ocr_calls + 1
                    /\ (pages_left' = pages_left - 1 \/ pc' = "Validated"))
        /\ gemini_calls' # gemini_calls
              => (pc = "Gemini" /\ gemini_calls' = gemini_calls + 1 /\ pc' = "Loop")
        /\ (pc = "Loop" /\ pc' # "Reconcile") => remaining' = remaining - 1
        /\ pc # "Loop" => remaining' = remaining

\* C16 as stated: every call ends in exactly one of success, failed and error;
\* an exception raised in any stage takes the call to error; no step of the
\* call is repeated (every step of the call reduces the work left; OCR is run
\* once per page and the structured extraction once per document).
C16_PerCallStateMachine ==
    /\ [](Returned => Terminal)
    /\ [][NoRetry]_vars
    /\ [][~(exceptions' \subseteq exceptions)
            => (pc' = "Validated" /\ verdict'.verification_status = "error")]_vars
    /\ (pc = "Start") ~> Returned

\* C16 amended: as C16, but the exceptions that take the call to error are
\* those raised outside the structured-extraction step (setup, rasterization,
\* image decoding, OCR, reconciliation); an exception of the structured
\* extraction leaves the call in the loop.
C16_PerCallStateMachineAmended ==
    /\ [](Returned => Terminal)
    /\ [][NoRetry]_vars
    /\ [][~(Escaped' \subseteq Escaped)
            => (pc \in CallStages /\ pc' = "Validated"
                  /\ verdict'.verification_status = "error")]_vars
    /\ [][(~(exceptions' \subseteq exceptions) /\ Escaped' = Escaped)
            => (pc = "Gemini" /\ pc' = "Loop" /\ verdict' = verdict)]_vars
    /\ (pc = "Start") ~> Returned

\* C16 witness: a call of two documents whose second raised in OCR after the
\* first had gone through every stage once, ended in error.
C16_Witness ==
    /\ Returned
    /\ verdict.verification_status = "error"
    /\ Len(processed) = 2
    /\ processed[1].fate = "read"
    /\ processed[2].fate = "fatal"
    /\ gemini_calls = 1
    /\ \E e \in exceptions : e.where = "ocr"

-----------------------------------------------------------------------------
\* C17: no cross-call shared mutable state.  With two verification calls
\* interleaved, the verdict of each is one validate_documents gives for its
\* documents when run alone, and no step of a call changes process-wide state
\* that another call reads (PATH, the tesseract command).
C17_NoSharedMutableState ==
    /\ [](\A c \in Callers :
            calls[c].stage = "returned"
                => calls[c].verdict \in validate_documents(calls[c].setup, calls[c].documents))
    /\ [][ambient' = ambient]_vars

\* The text of Scenario A.
ScenarioA ==
    <<"N","a","m","e",":"," ","A","s","h","a"," ","R","a","o","\n","D","O","B",":"," ","1","2","-","0","5","-","2","0","0","4","\n","B","o","a","r","d",":"," ","C","B","S","E","\n","T","o","t","a","l",":"," ","4","5","0">>

\* C18: the pattern strategy applied with document type marksheet to the text
\* of Scenario A extracts name "Asha Rao", dob "12-05-2004" as written, board
\* "CBSE" and total_marks "450".
C18_ScenarioA ==
    (text = ScenarioA /\ doc_type = "marksheet" /\ fields.returned) =>
        /\ fields.name = JStr(<<"A","s","h","a"," ","R","a","o">>)
        /\ fields.dob = JStr(<<"1","2","-","0","5","-","2","0","0","4">>)
        /\ fields.board = JStr(<<"C","B","S","E">>)
        /\ fields.total_marks = JStr(<<"4","5","0">>)

\* C19: submission success path.  When the verification verdict is valid and
\* the application data passes validation (a name, a well-formed email, a
\* program among Undergraduate, Graduate, PhD), submit_application returns
\* success=true with the application id, and exactly one application, with
\* status pending, has been stored by the call.
C19_SubmissionSuccessPath ==
    [][ ( /\ pc = "Verified"
          /\ pc' = "Done"
          /\ doc_verification.valid
          /\ validate_application_data(application_data') = << >> )
        => /\ result'.returned
           /\ result'.success
           /\ result'.application_id = application_id(application_data')
           /\ DOMAIN db_applications' \ DOMAIN db_applications
                 = {application_id(application_data')}
           /\ db_applications'[application_id(application_data')].status = "pending" ]_vars

\* C20: failure atomicity of the submission.  A call of submit_application
\* that returns success=false has stored no application record: the
\* applications collection is what it was before the call.
C20_FailureAtomicity ==
    [][ (pc = "Verified" /\ pc' = "Done" /\ result'.returned /\ ~result'.success)
        => db_applications' = db_applications ]_vars

\* The step is a call of update_application_status by the officer.
UpdateCall == office'.n = office.n + 1 /\ office'.op = "update_application_status"

\* The step is a call of generate_admission_documents by the officer.
GenerateCall == office'.n = office.n + 1 /\ office'.op = "generate_admission_documents"

\* C21: failure atomicity of the status update.  A call of
\* AdmissionAPI.update_application_status that returns success=false leaves
\* the stored status of the application as it was, and a call that changed
\* the stored status returned success=true, for every new_status.
C21_StatusUpdateAtomic ==
    [][ (UpdateCall /\ office'.application_id \in DOMAIN db_applications) =>
          LET before == db_applications[office'.application_id].status
              after == db_applications'[office'.application_id].status
          IN  /\ ~office'.result.success => after = before
              /\ after # before => office'.result.success ]_vars

\* C22: AdmissionOfficer.update_application_status rejects a new_status
\* outside pending, shortlisted, rejected with success=false and the error
\* "Invalid status", and rejects an unknown application id with
\* success=false; in both cases the store and the officer's in-memory map
\* stay as they are, and every stored application status is always one of
\* pending, shortlisted, rejected.
C22_StatusDomain ==
    /\ [][ UpdateCall =>
             /\ office'.new_status \notin ValidStatuses
                   => /\ ~office'.officer.success
                      /\ office'.officer.error = "Invalid status"
                      /\ UNCHANGED <<db_applications, officer_applications>>
             /\ office'.application_id \notin DOMAIN db_applications
                   => /\ ~office'.officer.success
                      /\ UNCHANGED <<db_applications, officer_applications>> ]_vars
    /\ [](\A id \in DOMAIN db_applications :
             db_applications[id].status \in {"pending", "shortlisted", "rejected"})

\* C22 witness: the officer asked for the status enrolled on a stored
\* application that an earlier call had shortlisted, and was refused.
C22_Witness ==
    /\ office.op = "update_application_status"
    /\ office.new_status = "enrolled"
    /\ office.application_id \in DOMAIN db_applications
    /\ db_applications[office.application_id].status = "shortlisted"
    /\ office.officer.error = "Invalid status"

\* C23: document generation success path.  For an application that exists
\* with the stored status shortlisted, generate_admission_documents returns
\* success=true with the admission letter, the fee slip and the student id,
\* and the generated documents have been stored.
C23_GenerationSuccessPath ==
    [][ ( /\ GenerateCall
          /\ office'.application_id \in DOMAIN db_applications
          /\ db_applications[office'.application_id].status = "shortlisted" )
        => /\ office'.result.success
           /\ office'.result.documents = {"admission_letter", "fee_slip"}
           /\ office'.result.student_id # << >>
           /\ db_documents' = db_documents + 1 ]_vars

\* C24: document generation guard.  For an application that is not found or
\* whose stored status is not shortlisted, generate_admission_documents
\* generates no letter and no fee slip, sends no notification, stores no
\* document and returns success=false.
C24_GenerationGuard ==
    [][ ( /\ GenerateCall
          /\ \/ office'.application_id \notin DOMAIN db_applications
             \/ db_applications[office'.application_id].status # "shortlisted" )
        => /\ ~office'.result.success
           /\ office'.generated = {}
           /\ office'.sent = {}
           /\ UNCHANGED stores ]_vars

\* C24 witness: the officer asked for the documents of a stored application
\* that is rejected, and the call was refused.
C24_Witness ==
    /\ office.op = "generate_admission_documents"
    /\ office.application_id \in DOMAIN db_applications
    /\ db_applications[office.application_id].status = "rejected"
    /\ office.result.error = "Application not found or not shortlisted"
    /\ office.generated = {}

\* The sum of the amounts of the stored loans whose status is approved.
RECURSIVE ApprovedSum(_, _)
ApprovedSum(loans, ids) ==
    IF ids = {} THEN 0
    ELSE LET id == CHOOSE x \in ids : TRUE
         IN  (IF loans[id].status = "approved" THEN loans[id].amount ELSE 0)
             + ApprovedSum(loans, ids \ {id})

\* Caller c returns from process_loan_request in this step.
Returns(c) == loan_calls[c].stage # "returned" /\ loan_calls'[c].stage = "returned"

\* C25: loan budget invariant.  After any sequence of process_loan_request
\* calls, those of different sessions interleaved on the shared store
\* included, the amounts of the stored approved loans sum to no more than
\* LOAN_ANNUAL_BUDGET.
C25_LoanBudget == ApprovedSum(db_loans, DOMAIN db_loans) <= LOAN_ANNUAL_BUDGET

\* C25 witness: both sessions asked, while the application of the student was
\* shortlisted, for amounts that together exceed the budget, and both calls
\* have returned.
C25_Witness ==
    /\ \A c \in Callers :
          /\ loan_calls[c].stage = "returned"
          /\ loan_calls[c].held
    /\ loan_calls[1].amount = 600000
    /\ loan_calls[2].amount = 500000
    /\ ApprovedSum(db_loans, DOMAIN db_loans) <= LOAN_ANNUAL_BUDGET

\* C26: loan eligibility guard.  process_loan_request returns approved=true
\* and stores a loan only if the store held, when the call asked, an
\* application of the student for the program with status shortlisted or
\* enrolled; for any other student it returns approved=false with the reason
\* "Student not eligible for loan" and stores nothing.
C26_EligibilityGuard ==
    [][ \A c \in Callers :
          /\ (Returns(c) /\ loan_calls'[c].result.approved) => loan_calls'[c].held
          /\ (loan_calls'[c] # loan_calls[c] /\ ~loan_calls'[c].held)
                => db_loans' = db_loans
          /\ (Returns(c) /\ ~loan_calls'[c].held)
                => /\ ~loan_calls'[c].result.approved
                   /\ loan_calls'[c].result.reason = "Student not eligible for loan" ]_vars

\* C26 witness: a student whose application is stored but still pending
\* asked for a loan and was told that the student is not eligible.
C26_Witness ==
    \E c \in Callers :
        /\ loan_calls[c].stage = "returned"
        /\ loan_calls[c].student_info.name = AshaRao
        /\ AshaId \in DOMAIN db_applications
        /\ db_applications[AshaId].status = "pending"
        /\ ~loan_calls[c].held
        /\ loan_calls[c].result.reason = "Student not eligible for loan"
        /\ db_loans = << >>

\* C27: loan approval path.  Every request of a student whose application is
\* shortlisted, for an amount within the remaining budget (the annual budget
\* less the amounts already approved), is approved and a loan record with the
\* amount is stored, also when loans are stored already.
C27_ApprovalPath ==
    [][ \A c \in Callers :
          ( /\ Returns(c)
            /\ loan_calls'[c].held
            /\ holds_application(db_applications, loan_calls[c].student_info)
            /\ loan_calls[c].amount
                  <= LOAN_ANNUAL_BUDGET - ApprovedSum(db_loans, DOMAIN db_loans) )
          => /\ loan_calls'[c].result.approved
             /\ \E id \in DOMAIN db_loans' :
                   /\ db_loans'[id].amount = loan_calls[c].amount
                   /\ db_loans'[id].student_name = loan_calls[c].student_info.name ]_vars

====
